---- MODULE Spec2Model ----
(***************************************************************************)
(* Filter expression compiler and group membership manager of the         *)
(* dashboard front end: clause compilation, left-associative AST           *)
(* construction, query-document generation, preview rendering, and the     *)
(* index-based group bookkeeping of the filter group manager together      *)
(* with the dashboard wrapper that owns the filter state.                  *)
(*                                                                         *)
(* JavaScript values are encoded as tagged records so that values of       *)
(* different JavaScript types stay comparable:                             *)
(*   undefined  [t |-> "undef"]                                            *)
(*   string     [t |-> "str", s |-> "..."]                                 *)
(*   number     [t |-> "num", n |-> 42]                                    *)
(*   array      [t |-> "list", l |-> << ... >>]                            *)
(* An absent connector (logic / logicOperator undefined) is "NONE".        *)
(* Array positions are the 0-based positions of the source.                *)
(***************************************************************************)
EXTENDS Integers, Sequences, FiniteSets, TLC

VARIABLES
    filters,          \* the clause array (filters argument / shared filters array)
    groups,           \* the explicit group definitions (groups argument / activeFilters.groups)
    selectedIndices,  \* FilterGroupManagerComponent.selectedIndices
    lastClickedIndex, \* FilterGroupManagerComponent.lastClickedIndex (-1 = null)
    separators,       \* FilterGroupManagerComponent.separators
    queryDSL,         \* activeFilters.queryDSL of the dashboard wrapper
    emitted,          \* events emitted by the manager during the last operation
    nextGroupId,      \* source of fresh group ids
    op,               \* the last operation and its arguments
    result            \* value returned by the last compiler call

vars == <<filters, groups, selectedIndices, lastClickedIndex, separators,
          queryDSL, emitted, nextGroupId, op, result>>

----------------------------------------------------------------------------
(* Bounds *)

MaxFilters == 4
MaxLeafFilters == 2
MaxMgrFilters == 4
MaxGroupIds == 1
MaxSelected == 2
\* values of generateId() the filter builder may draw
MaxRowIds == 5

----------------------------------------------------------------------------
(* JavaScript value helpers *)

NONE == "NONE"

Undef == [t |-> "undef"]

Str(s) == [t |-> "str", s |-> s]

Num(n) == [t |-> "num", n |-> n]

List(l) == [t |-> "list", l |-> l]

\* 0-based array access
At(seq, i) == seq[i + 1]

\* const x = v; ...: F applied to the value of v, which is evaluated once
Then(v, F(_)) == CHOOSE r \in {F(x) : x \in {v}} : TRUE

\* JavaScript truthiness of a value (if (v), !v, v || d)
Truthy(v) ==
    CASE v.t = "undef" -> FALSE
      [] v.t = "str" -> v.s # ""
      [] v.t = "num" -> v.n # 0
      [] OTHER -> TRUE

\* Decimal text of a natural number
RECURSIVE NatToString(_)
NatToString(n) ==
    LET d == n % 10
        c == CASE d = 0 -> "0" [] d = 1 -> "1" [] d = 2 -> "2" [] d = 3 -> "3"
               [] d = 4 -> "4" [] d = 5 -> "5" [] d = 6 -> "6" [] d = 7 -> "7"
               [] d = 8 -> "8" [] OTHER -> "9"
    IN IF n < 10 THEN c ELSE NatToString(n \div 10) \o c

IntToString(n) == IF n < 0 THEN "-" \o NatToString(0 - n) ELSE NatToString(n)

RECURSIVE JoinStrings(_, _)
JoinStrings(seq, sep) ==
    IF Len(seq) = 0 THEN ""
    ELSE IF Len(seq) = 1 THEN seq[1]
    ELSE seq[1] \o sep \o JoinStrings(Tail(seq), sep)

\* Template-literal / String() conversion of a value
RECURSIVE ToText(_)
ToText(v) ==
    CASE v.t = "undef" -> "undefined"
      [] v.t = "str" -> v.s
      [] v.t = "num" -> IntToString(v.n)
      [] OTHER -> JoinStrings([i \in 1..Len(v.l) |-> ToText(v.l[i])], ",")

\* The string values of the input alphabet that match /^-?\d+(\.\d+)?$/ after
\* trimming, with the number parseFloat gives for each
NumericStrings == [s \in {"42", "0", " 7 "} |->
                     CASE s = "42" -> 42 [] s = "0" -> 0 [] OTHER -> 7]

\* The comma-separated string values of the input alphabet, with the result of
\* value.split(',').map(v => v.trim())
SplitTrim(s) ==
    CASE s = "a, b" -> <<Str("a"), Str("b")>>
      [] OTHER -> <<Str(s)>>

endsWithKeyword(field) == field \in {"A.keyword", "B.keyword"}

isNumeric(val) ==
    CASE val.t = "undef" -> FALSE
      [] val.t = "str" -> val.s \in DOMAIN NumericStrings
      [] val.t = "num" -> TRUE
      [] OTHER -> FALSE

convertValue(val, isKeyword) ==
    IF isKeyword THEN val
    ELSE IF isNumeric(val)
         THEN (IF val.t = "str" THEN Num(NumericStrings[val.s]) ELSE val)
         ELSE val

----------------------------------------------------------------------------
(* Query documents.  Every document is a record tagged by its single key. *)

MatchAll == [k |-> "match_all"]

\* the JavaScript null returned for a clause that yields no query
NullQuery == [k |-> "null"]

Term(f, v) == [k |-> "term", field |-> f, value |-> v]

Match(f, v) == [k |-> "match", field |-> f, value |-> v]

Terms(f, vs) == [k |-> "terms", field |-> f, values |-> vs]

Exists(f) == [k |-> "exists", field |-> f]

Range(f, bounds) == [k |-> "range", field |-> f, bounds |-> bounds]

Prefix(f, v) == [k |-> "prefix", field |-> f, value |-> v]

Wildcard(f, text) == [k |-> "wildcard", field |-> f, value |-> text, case_insensitive |-> TRUE]

QueryString(f, v) == [k |-> "query_string", default_field |-> f, query |-> v]

\* { bool: { ... } }: keys is the set of keys present in the bool object
BoolDoc(keys, must, should, mustNot, msm) ==
    [k |-> "bool", keys |-> keys, must |-> must, should |-> should,
     must_not |-> mustNot, minimum_should_match |-> msm]

MustNotDoc(q) == BoolDoc({"must_not"}, <<>>, <<>>, <<q>>, 0)

MustDoc(qs) == BoolDoc({"must"}, qs, <<>>, <<>>, 0)

ShouldDoc(qs) == BoolDoc({"should", "minimum_should_match"}, <<>>, qs, <<>>, 1)

\* { query: <document> }
QueryWrapper(doc) == [query |-> doc]

----------------------------------------------------------------------------
(* Clauses *)

NoMeta == [groupId |-> 0, groupType |-> NONE, isGroupStart |-> FALSE, isGroupEnd |-> FALSE]

\* A SimpleFilter / GroupedFilter object
Clause(field, operator, value, logic, disabled) ==
    [field |-> field, operator |-> operator, value |-> value, logic |-> logic,
     disabled |-> disabled, minValue |-> Undef, maxValue |-> Undef,
     minOperator |-> NONE, maxOperator |-> NONE, groupMeta |-> NoMeta]

RangeClause(field, minValue, maxValue, minOperator, maxOperator, logic, disabled) ==
    [field |-> field, operator |-> "range", value |-> Undef, logic |-> logic,
     disabled |-> disabled, minValue |-> minValue, maxValue |-> maxValue,
     minOperator |-> minOperator, maxOperator |-> maxOperator, groupMeta |-> NoMeta]

isNegatedOperator(operator) ==
    operator = "is_not" \/ operator = "does_not_exist" \/ operator = "is_not_one_of"

\* value of is_one_of / is_not_one_of as an array
multiValues(value) ==
    CASE value.t = "list" -> value.l
      [] value.t = "str" -> SplitTrim(value.s)
      [] OTHER -> <<value>>

rangeQueryOf(filter, isKeyword) ==
    LET lo == IF Truthy(filter.minValue)
              THEN [o \in {IF filter.minOperator # NONE THEN filter.minOperator ELSE "gt"}
                      |-> convertValue(filter.minValue, isKeyword)]
              ELSE [o \in {} |-> Undef]
        hiKey == IF filter.maxOperator # NONE THEN filter.maxOperator ELSE "lt"
    IN IF Truthy(filter.maxValue)
       THEN [o \in (DOMAIN lo) \cup {hiKey} |->
               IF o = hiKey THEN convertValue(filter.maxValue, isKeyword) ELSE lo[o]]
       ELSE lo

buildSingleFilterQuery(filter) ==
    LET field == filter.field
        value == filter.value
        isKeyword == endsWithKeyword(field)
    IN CASE filter.operator = "is" ->
              IF isKeyword \/ isNumeric(value)
              THEN Term(field, convertValue(value, isKeyword))
              ELSE Match(field, value)
         [] filter.operator = "is_not" ->
              IF isKeyword \/ isNumeric(value)
              THEN MustNotDoc(Term(field, convertValue(value, isKeyword)))
              ELSE MustNotDoc(Match(field, value))
         [] filter.operator = "is_one_of" -> Terms(field, multiValues(value))
         [] filter.operator = "is_not_one_of" -> MustNotDoc(Terms(field, multiValues(value)))
         [] filter.operator = "exists" -> Exists(field)
         [] filter.operator = "does_not_exist" -> MustNotDoc(Exists(field))
         [] filter.operator = "range" ->
              LET rangeQuery == rangeQueryOf(filter, isKeyword)
              IN IF DOMAIN rangeQuery # {} THEN Range(field, rangeQuery) ELSE NullQuery
         [] filter.operator = "prefix" ->
              IF ~Truthy(value) THEN NullQuery
              ELSE IF isKeyword THEN Prefix(field, value)
              ELSE Wildcard(field, ToText(value) \o "*")
         [] filter.operator = "wildcard" ->
              IF ~Truthy(value) THEN NullQuery ELSE Wildcard(field, ToText(value))
         [] filter.operator = "query_string" ->
              IF ~Truthy(value) THEN NullQuery ELSE QueryString(field, value)
         [] OTHER -> NullQuery

toKibanaFilter(simpleFilter) ==
    [meta |-> [type |-> "phrase", field |-> simpleFilter.field,
               params |-> simpleFilter.value,
               negate |-> isNegatedOperator(simpleFilter.operator),
               disabled |-> simpleFilter.disabled],
     query |-> buildSingleFilterQuery(simpleFilter)]

----------------------------------------------------------------------------
(* Filter AST of the utility compiler (FilterASTNode) *)

FilterNode(kf) == [type |-> "filter", filter |-> kf]

\* { type: 'bool', bool: { must: children } }
MustNode(children) ==
    [type |-> "bool",
     bool |-> [keys |-> {"must"}, must |-> children, should |-> <<>>,
               must_not |-> <<>>, minimum_should_match |-> 0]]

\* { type: 'bool', bool: { should: children, minimum_should_match: 1 } }
ShouldNode(children) ==
    [type |-> "bool",
     bool |-> [keys |-> {"should", "minimum_should_match"}, must |-> <<>>,
               should |-> children, must_not |-> <<>>, minimum_should_match |-> 1]]

\* result.type === 'bool' && result.bool?.should
HasShould(node) == node.type = "bool" /\ "should" \in node.bool.keys

\* result.type === 'bool' && result.bool?.must
HasMust(node) == node.type = "bool" /\ "must" \in node.bool.keys

\* result.bool.should.push(nextFilter)
PushShould(node, child) ==
    [node EXCEPT !.bool.should = Append(@, child)]

\* result.bool.must.push(nextFilter)
PushMust(node, child) ==
    [node EXCEPT !.bool.must = Append(@, child)]

\* filters.filter(f => !f.disabled)
RECURSIVE enabledOf(_)
enabledOf(fs) ==
    IF Len(fs) = 0 THEN <<>>
    ELSE IF Head(fs).disabled THEN enabledOf(Tail(fs))
    ELSE <<Head(fs)>> \o enabledOf(Tail(fs))

\* f.logic || 'AND'
logicOrAnd(f) == IF f.logic # NONE THEN f.logic ELSE "AND"

\* the loop body without the extension of an existing bool node
LeftAssociativeStepNoExtend(kfs, operators, i, res) ==
    IF At(operators, i - 1) = "OR"
    THEN ShouldNode(<<res, FilterNode(At(kfs, i))>>)
    ELSE MustNode(<<res, FilterNode(At(kfs, i))>>)

\* One pass of the loop body of buildASTLeftAssociative for index i
LeftAssociativeStep(kfs, operators, i, res) ==
    LET operator == At(operators, i - 1)
        nextFilter == FilterNode(At(kfs, i))
        prevOperator == IF i > 1 THEN At(operators, i - 2) ELSE NONE
        operatorChanged == prevOperator # NONE /\ prevOperator # operator
    IN IF operator = "OR"
       THEN IF operatorChanged THEN ShouldNode(<<res, nextFilter>>)
            ELSE IF HasShould(res) THEN PushShould(res, nextFilter)
            ELSE ShouldNode(<<res, nextFilter>>)
       ELSE IF operatorChanged THEN MustNode(<<res, nextFilter>>)
            ELSE IF HasMust(res) THEN PushMust(res, nextFilter)
            ELSE IF HasShould(res) THEN MustNode(<<res, nextFilter>>)
            ELSE MustNode(<<res, nextFilter>>)

RECURSIVE LeftAssociativeLoop(_, _, _, _)
LeftAssociativeLoop(kfs, operators, i, res) ==
    IF i >= Len(kfs) THEN res
    ELSE LeftAssociativeLoop(kfs, operators, i + 1,
                             LeftAssociativeStep(kfs, operators, i, res))

\* null is NullQuery's AST counterpart: [type |-> "null"]
NullAST == [type |-> "null"]

buildASTLeftAssociative(kfs, operators) ==
    IF Len(kfs) = 0 THEN NullAST
    ELSE IF Len(kfs) = 1 THEN FilterNode(At(kfs, 0))
    ELSE LeftAssociativeLoop(kfs, operators, 1, FilterNode(At(kfs, 0)))

\* the builder with the connectors read from the unfiltered clause list
buildFilterASTWithOperatorsRawConnectors(fs) ==
    IF Len(fs) = 0 THEN NullAST
    ELSE LET enabledFilters == enabledOf(fs)
         IN IF Len(enabledFilters) = 0 THEN NullAST
            ELSE buildASTLeftAssociative(
                    [i \in 1..Len(enabledFilters) |-> toKibanaFilter(enabledFilters[i])],
                    [i \in 1..(Len(enabledFilters) - 1) |-> logicOrAnd(At(fs, i))])

buildFilterASTWithOperators(fs) ==
    IF Len(fs) = 0 THEN NullAST
    ELSE LET enabledFilters == enabledOf(fs)
         IN IF Len(enabledFilters) = 0 THEN NullAST
            ELSE LET kibanaFilters == [i \in 1..Len(enabledFilters) |->
                                          toKibanaFilter(enabledFilters[i])]
                     operators == [i \in 1..(Len(enabledFilters) - 1) |->
                                      logicOrAnd(At(enabledFilters, i))]
                 IN buildASTLeftAssociative(kibanaFilters, operators)

----------------------------------------------------------------------------
(* AST to query document *)

isEmptyQuery(query) == query.k = "null" \/ query.k = "match_all"

\* array.filter(q => q && !isEmptyQuery(q))
RECURSIVE dropEmpty(_)
dropEmpty(qs) ==
    IF Len(qs) = 0 THEN <<>>
    ELSE IF isEmptyQuery(Head(qs)) THEN dropEmpty(Tail(qs))
    ELSE <<Head(qs)>> \o dropEmpty(Tail(qs))

\* the leaf case of astToEsQuery and of groupedAstToEsQuery
leafToEsQuery(kf) ==
    LET query == IF kf.query.k # "null" THEN kf.query ELSE MatchAll
    IN IF kf.meta.negate THEN MustNotDoc(query) ELSE query

\* the bool object without minimum_should_match beside should
boolClauseOfNoMinimum(b, mustQueries, shouldQueries, mustNotQueries) ==
    LET hasMust == "must" \in b.keys /\ Len(mustQueries) > 0
        hasShould == "should" \in b.keys /\ Len(shouldQueries) > 0
        hasMustNot == "must_not" \in b.keys /\ Len(mustNotQueries) > 0
        keys == (IF hasMust THEN {"must"} ELSE {})
                  \cup (IF hasShould THEN {"should"} ELSE {})
                  \cup (IF hasMustNot THEN {"must_not"} ELSE {})
    IN IF keys = {} THEN MatchAll
       ELSE BoolDoc(keys,
                    IF hasMust THEN mustQueries ELSE <<>>,
                    IF hasShould THEN shouldQueries ELSE <<>>,
                    IF hasMustNot THEN mustNotQueries ELSE <<>>,
                    0)

\* the bool object assembled from the compiled children of a bool node
boolClauseOf(b, mustQueries, shouldQueries, mustNotQueries) ==
    LET hasMust == "must" \in b.keys /\ Len(mustQueries) > 0
        hasShould == "should" \in b.keys /\ Len(shouldQueries) > 0
        hasMustNot == "must_not" \in b.keys /\ Len(mustNotQueries) > 0
        keys == (IF hasMust THEN {"must"} ELSE {})
                  \cup (IF hasShould THEN {"should", "minimum_should_match"} ELSE {})
                  \cup (IF hasMustNot THEN {"must_not"} ELSE {})
    IN IF keys = {} THEN MatchAll
       ELSE BoolDoc(keys,
                    IF hasMust THEN mustQueries ELSE <<>>,
                    IF hasShould THEN shouldQueries ELSE <<>>,
                    IF hasMustNot THEN mustNotQueries ELSE <<>>,
                    IF hasShould
                    THEN (IF b.minimum_should_match # 0 THEN b.minimum_should_match ELSE 1)
                    ELSE 0)

RECURSIVE astToEsQuery(_)
astToEsQuery(ast) ==
    CASE ast.type = "null" -> MatchAll
      [] ast.type = "filter" -> leafToEsQuery(ast.filter)
      [] ast.type = "bool" ->
           LET b == ast.bool
               mustQueries == dropEmpty([i \in 1..Len(b.must) |-> astToEsQuery(b.must[i])])
               shouldQueries == dropEmpty([i \in 1..Len(b.should) |-> astToEsQuery(b.should[i])])
               mustNotQueries == dropEmpty([i \in 1..Len(b.must_not) |-> astToEsQuery(b.must_not[i])])
           IN boolClauseOf(b, mustQueries, shouldQueries, mustNotQueries)
      [] OTHER -> MatchAll

\* buildEsQueryFromFilters returning the document itself
buildEsQueryFromFiltersBare(fs) ==
    IF Len(fs) = 0 THEN QueryWrapper(MatchAll)
    ELSE astToEsQuery(buildFilterASTWithOperators(fs))

buildEsQueryFromFilters(fs) ==
    IF Len(fs) = 0 THEN QueryWrapper(MatchAll)
    ELSE LET ast == buildFilterASTWithOperators(fs)
         IN IF ast.type = "null" THEN QueryWrapper(MatchAll)
            ELSE QueryWrapper(astToEsQuery(ast))

----------------------------------------------------------------------------
(* Preview string of the utility compiler *)

getRangeOperatorSymbol(o) ==
    CASE o = "gt" -> ">" [] o = "gte" -> ">=" [] o = "lt" -> "<" [] o = "lte" -> "<="
      [] OTHER -> o

\* `${value || '-'}`
valueOrDash(value) == IF Truthy(value) THEN ToText(value) ELSE "-"

formatFilterText(filter) ==
    LET field == filter.field
        rangeParts ==
            (IF Truthy(filter.minValue)
             THEN <<getRangeOperatorSymbol(IF filter.minOperator # NONE
                                           THEN filter.minOperator ELSE "gt")
                      \o " " \o ToText(filter.minValue)>>
             ELSE <<>>)
            \o (IF Truthy(filter.maxValue)
                THEN <<getRangeOperatorSymbol(IF filter.maxOperator # NONE
                                              THEN filter.maxOperator ELSE "lt")
                         \o " " \o ToText(filter.maxValue)>>
                ELSE <<>>)
        filterText ==
            CASE filter.operator = "exists" -> field \o ": exists"
              [] filter.operator = "does_not_exist" -> field \o ": exists"
              [] filter.operator = "range" ->
                   IF Len(rangeParts) > 0
                   THEN field \o ": " \o JoinStrings(rangeParts, " and ")
                   ELSE field \o ": -"
              [] filter.operator = "prefix" ->
                   field \o ": prefix \"" \o valueOrDash(filter.value) \o "\""
              [] filter.operator = "wildcard" ->
                   field \o ": wildcard \"" \o valueOrDash(filter.value) \o "\""
              [] filter.operator = "query_string" ->
                   field \o ": query_string \"" \o valueOrDash(filter.value) \o "\""
              [] OTHER -> field \o ": " \o valueOrDash(filter.value)
    IN IF isNegatedOperator(filter.operator) THEN "NOT " \o filterText ELSE filterText

\* expressions[i].operator || 'AND'
exprOperators(expressions) ==
    [i \in 1..(Len(expressions) - 1) |->
        IF At(expressions, i).operator # NONE THEN At(expressions, i).operator ELSE "AND"]

\* the allSame branch: expr.text for the first, `${expr.operator} ${expr.text}` after
sameOperatorParts(expressions) ==
    [i \in 1..Len(expressions) |->
        IF i = 1 THEN expressions[i].text
        ELSE (IF expressions[i].operator = NONE THEN "null" ELSE expressions[i].operator)
               \o " " \o expressions[i].text]

\* the loop without parentheses around the accumulated text
RECURSIVE PreviewGroupingLoopNoParens(_, _, _, _)
PreviewGroupingLoopNoParens(expressions, operators, i, res) ==
    IF i >= Len(expressions) THEN res
    ELSE PreviewGroupingLoopNoParens(expressions, operators, i + 1,
             res \o " " \o At(operators, i - 1) \o " " \o At(expressions, i).text)

RECURSIVE PreviewGroupingLoop(_, _, _, _)
PreviewGroupingLoop(expressions, operators, i, res) ==
    IF i >= Len(expressions) THEN res
    ELSE LET operator == At(operators, i - 1)
             nextText == At(expressions, i).text
             prevOperator == IF i > 1 THEN At(operators, i - 2) ELSE NONE
             needsParens == prevOperator # NONE /\ prevOperator # operator
         IN PreviewGroupingLoop(expressions, operators, i + 1,
                IF needsParens
                THEN "(" \o res \o ") " \o operator \o " " \o nextText
                ELSE res \o " " \o operator \o " " \o nextText)

buildPreviewWithGrouping(expressions) ==
    IF Len(expressions) = 0 THEN ""
    ELSE IF Len(expressions) = 1 THEN At(expressions, 0).text
    ELSE LET operators == exprOperators(expressions)
             allSame == \A i \in 1..Len(operators) : operators[i] = operators[1]
         IN IF allSame
            THEN JoinStrings(sameOperatorParts(expressions), " ")
            ELSE PreviewGroupingLoop(expressions, operators, 1, At(expressions, 0).text)

buildPreviewString(fs) ==
    IF Len(fs) = 0 THEN ""
    ELSE LET enabledFilters == enabledOf(fs)
         IN IF Len(enabledFilters) = 0 THEN ""
            ELSE buildPreviewWithGrouping(
                    [i \in 1..Len(enabledFilters) |->
                        [text |-> formatFilterText(enabledFilters[i]),
                         operator |-> IF i > 1 THEN logicOrAnd(enabledFilters[i]) ELSE NONE]])

----------------------------------------------------------------------------
(* FilterAstService: AST over filter rows *)

\* createClauseNode(clause)
createClauseNode(clause) == [type |-> "clause", id |-> clause.id, clause |-> clause]

\* createGroupNode(operator, children); generated node ids are not modelled
createGroupNode(operator, children) ==
    [type |-> "group", operator |-> operator, children |-> children]

combineNodes(left, right, operator) ==
    IF left.type = "group" /\ left.operator = operator
    THEN [left EXCEPT !.children = Append(@, right)]
    ELSE createGroupNode(operator, <<left, right>>)

RECURSIVE buildASTLoop(_, _, _)
buildASTLoop(rows, i, res) ==
    IF i >= Len(rows) THEN res
    ELSE LET row == At(rows, i)
             operator == IF row.logicOperator # NONE THEN row.logicOperator ELSE "AND"
             nextNode == createClauseNode(row.clause)
         IN buildASTLoop(rows, i + 1, combineNodes(res, nextNode, operator))

buildAST(rows) ==
    IF Len(rows) = 0 THEN NullAST
    ELSE IF Len(rows) = 1 THEN createClauseNode(At(rows, 0).clause)
    ELSE buildASTLoop(rows, 1, createClauseNode(At(rows, 0).clause))

\* `[${values?.join(', ') || value}]`
valuesOrValue(clause) ==
    IF clause.values.t = "list" /\ JoinStrings([i \in 1..Len(clause.values.l) |->
                                                   ToText(clause.values.l[i])], ", ") # ""
    THEN JoinStrings([i \in 1..Len(clause.values.l) |-> ToText(clause.values.l[i])], ", ")
    ELSE ToText(clause.value)

formatClause(clause) ==
    LET field == clause.field
        rangeParts ==
            (IF Truthy(clause.minValue) THEN <<">= " \o ToText(clause.minValue)>> ELSE <<>>)
            \o (IF Truthy(clause.maxValue) THEN <<"<= " \o ToText(clause.maxValue)>> ELSE <<>>)
    IN IF field = "" THEN "..."
       ELSE CASE clause.operator = "exists" -> field \o " exists"
              [] clause.operator = "does_not_exist" -> field \o " does not exist"
              [] clause.operator = "is_one_of" ->
                   field \o " is one of [" \o valuesOrValue(clause) \o "]"
              [] clause.operator = "is_not_one_of" ->
                   field \o " is not one of [" \o valuesOrValue(clause) \o "]"
              [] clause.operator = "range" ->
                   IF Len(rangeParts) > 0
                   THEN field \o " is between " \o JoinStrings(rangeParts, " and ")
                   ELSE field \o " ..."
              [] clause.operator = "prefix" ->
                   field \o " starts with \"" \o ToText(clause.value) \o "\""
              [] clause.operator = "wildcard" ->
                   field \o " matches \"" \o ToText(clause.value) \o "\""
              [] clause.operator = "query_string" ->
                   field \o ": \"" \o ToText(clause.value) \o "\""
              [] clause.operator = "is_not" ->
                   field \o " is not \"" \o ToText(clause.value) \o "\""
              [] OTHER -> field \o " is \"" \o ToText(clause.value) \o "\""

RECURSIVE buildPreviewRecursive(_, _)
buildPreviewRecursive(node, parentOperator) ==
    IF node.type = "clause" THEN formatClause(node.clause)
    ELSE LET childrenPreview == [i \in 1..Len(node.children) |->
                                    buildPreviewRecursive(node.children[i], node.operator)]
             joined == JoinStrings(childrenPreview, " " \o node.operator \o " ")
             needsParens == parentOperator # NONE /\ parentOperator # node.operator
         IN IF needsParens THEN "(" \o joined \o ")" ELSE joined

generatePreview(ast) ==
    IF ast.type = "null" THEN "" ELSE buildPreviewRecursive(ast, NONE)

\* values || (value ? [value] : [])
valuesOrSingle(clause) ==
    IF clause.values.t = "list" THEN clause.values.l
    ELSE IF Truthy(clause.value) THEN <<clause.value>> ELSE <<>>

\* value !== undefined && value !== ''
isGiven(value) == value.t # "undef" /\ value # Str("")

\* the range object of the service: gte and lte are the default bounds
serviceRangeQuery(clause, isKeyword) ==
    LET lo == IF isGiven(clause.minValue)
              THEN [o \in {IF clause.minOperator # NONE THEN clause.minOperator ELSE "gte"}
                      |-> convertValue(clause.minValue, isKeyword)]
              ELSE [o \in {} |-> Undef]
        hiKey == IF clause.maxOperator # NONE THEN clause.maxOperator ELSE "lte"
    IN IF isGiven(clause.maxValue)
       THEN [o \in (DOMAIN lo) \cup {hiKey} |->
               IF o = hiKey THEN convertValue(clause.maxValue, isKeyword) ELSE lo[o]]
       ELSE lo

clauseToQueryDSL(clause) ==
    LET field == clause.field
        value == clause.value
        isKeyword == endsWithKeyword(field)
    IN IF field = "" THEN MatchAll
       ELSE CASE clause.operator = "is" ->
                   IF isKeyword \/ isNumeric(value)
                   THEN Term(field, convertValue(value, isKeyword))
                   ELSE Match(field, value)
              [] clause.operator = "is_not" ->
                   IF isKeyword \/ isNumeric(value)
                   THEN MustNotDoc(Term(field, convertValue(value, isKeyword)))
                   ELSE MustNotDoc(Match(field, value))
              [] clause.operator = "is_one_of" -> Terms(field, valuesOrSingle(clause))
              [] clause.operator = "is_not_one_of" ->
                   MustNotDoc(Terms(field, valuesOrSingle(clause)))
              [] clause.operator = "exists" -> Exists(field)
              [] clause.operator = "does_not_exist" -> MustNotDoc(Exists(field))
              [] clause.operator = "range" ->
                   LET rangeQuery == serviceRangeQuery(clause, isKeyword)
                   IN IF DOMAIN rangeQuery # {} THEN Range(field, rangeQuery) ELSE MatchAll
              [] clause.operator = "prefix" ->
                   IF isKeyword THEN Prefix(field, value)
                   ELSE Wildcard(field, ToText(value) \o "*")
              [] clause.operator = "wildcard" -> Wildcard(field, ToText(value))
              [] clause.operator = "query_string" -> QueryString(field, value)
              [] OTHER -> MatchAll

RECURSIVE toQueryDSLRecursive(_)
toQueryDSLRecursive(node) ==
    IF node.type = "clause" THEN clauseToQueryDSL(node.clause)
    ELSE Then(dropEmpty([i \in 1..Len(node.children) |->
                            toQueryDSLRecursive(node.children[i])]),
              LAMBDA childrenQueries :
                  IF Len(childrenQueries) = 0 THEN MatchAll
                  ELSE IF Len(childrenQueries) = 1 THEN childrenQueries[1]
                  ELSE IF node.operator = "OR" THEN ShouldDoc(childrenQueries)
                  ELSE MustDoc(childrenQueries))

toQueryDSL(ast) ==
    IF ast.type = "null" THEN MatchAll ELSE toQueryDSLRecursive(ast)

\* position is not used by the code
addClause(ast, clause, operator) ==
    IF ast.type = "null" THEN createClauseNode(clause)
    ELSE combineNodes(ast, createClauseNode(clause), operator)

\* children.filter(child => child !== null)
dropNull(nodes) == SelectSeq(nodes, LAMBDA n : n.type # "null")

RECURSIVE removeClause(_, _)
removeClause(ast, clauseId) ==
    IF ast.type = "null" THEN NullAST
    ELSE IF ast.type = "clause"
    THEN (IF ast.clause.id = clauseId THEN NullAST ELSE ast)
    ELSE Then(dropNull([i \in 1..Len(ast.children) |->
                           removeClause(ast.children[i], clauseId)]),
              LAMBDA filteredChildren :
                  IF Len(filteredChildren) = 0 THEN NullAST
                  ELSE IF Len(filteredChildren) = 1 THEN filteredChildren[1]
                  ELSE [ast EXCEPT !.children = filteredChildren])

\* { ...clause, ...updates }
mergeClause(clause, updates) ==
    [f \in DOMAIN clause |-> IF f \in DOMAIN updates THEN updates[f] ELSE clause[f]]

RECURSIVE updateClause(_, _, _)
updateClause(ast, clauseId, updates) ==
    IF ast.type = "null" THEN NullAST
    ELSE IF ast.type = "clause"
    THEN (IF ast.clause.id = clauseId
          THEN [ast EXCEPT !.clause = mergeClause(ast.clause, updates)]
          ELSE ast)
    ELSE [ast EXCEPT !.children =
             dropNull([i \in 1..Len(ast.children) |->
                          updateClause(ast.children[i], clauseId, updates)])]

----------------------------------------------------------------------------
(* Group-aware AST (buildGroupedAST) *)

\* A FilterGroupDefinition
Group(id, type, filterIndices) == [id |-> id, type |-> type, filterIndices |-> filterIndices]

\* Math.min(...indices); Infinity for an empty array is a number above every index
Infinity == 1000000

RECURSIVE MathMin(_)
MathMin(indices) ==
    IF Len(indices) = 0 THEN Infinity
    ELSE LET m == MathMin(Tail(indices))
         IN IF Head(indices) < m THEN Head(indices) ELSE m

\* Math.max(...indices); -Infinity for an empty array
RECURSIVE MathMax(_)
MathMax(indices) ==
    IF Len(indices) = 0 THEN 0 - Infinity
    ELSE LET m == MathMax(Tail(indices))
         IN IF Head(indices) > m THEN Head(indices) ELSE m

\* array.filter(keep) for a predicate given as the set of kept positions (1-based)
RECURSIVE FilterSeq(_, _, _)
FilterSeq(seq, keep, i) ==
    IF i > Len(seq) THEN <<>>
    ELSE (IF i \in keep THEN <<seq[i]>> ELSE <<>>) \o FilterSeq(seq, keep, i + 1)

\* stable insertion of g into a list sorted by group start
RECURSIVE InsertByStart(_, _)
InsertByStart(sorted, g) ==
    IF Len(sorted) = 0 THEN <<g>>
    ELSE IF MathMin(g.filterIndices) < MathMin(Head(sorted).filterIndices)
         THEN <<g>> \o sorted
         ELSE <<Head(sorted)>> \o InsertByStart(Tail(sorted), g)

\* [...groups].sort((a, b) => aStart - bStart), a stable sort
RECURSIVE SortByStart(_)
SortByStart(gs) ==
    IF Len(gs) = 0 THEN <<>>
    ELSE InsertByStart(SortByStart(SubSeq(gs, 1, Len(gs) - 1)), gs[Len(gs)])

\* the leaf { type: 'filter', filter: { meta: {} } } of an empty group
EmptyKibanaFilter ==
    [meta |-> [type |-> NONE, field |-> "", params |-> Undef, negate |-> FALSE,
               disabled |-> FALSE],
     query |-> NullQuery]

RECURSIVE FlatASTLoop(_, _, _, _)
FlatASTLoop(fs, i, endIdx, res) ==
    IF i > endIdx THEN res
    ELSE LET operator == logicOrAnd(At(fs, i))
         IN Then(FilterNode(toKibanaFilter(At(fs, i))), LAMBDA nextFilter :
            FlatASTLoop(fs, i + 1, endIdx,
                IF operator = "OR"
                THEN IF HasShould(res) THEN PushShould(res, nextFilter)
                     ELSE ShouldNode(<<res, nextFilter>>)
                ELSE IF HasMust(res) THEN PushMust(res, nextFilter)
                     ELSE IF HasShould(res) THEN MustNode(<<res, nextFilter>>)
                     ELSE MustNode(<<res, nextFilter>>)))

\* buildFlatAST that joins every clause of the range by AND
buildFlatASTAllMust(fs, startIdx, endIdx) ==
    IF startIdx = endIdx THEN FilterNode(toKibanaFilter(At(fs, startIdx)))
    ELSE MustNode([i \in 1..(endIdx - startIdx + 1) |->
                      FilterNode(toKibanaFilter(At(fs, startIdx + i - 1)))])

buildFlatAST(fs, startIdx, endIdx) ==
    FlatASTLoop(fs, startIdx + 1, endIdx, FilterNode(toKibanaFilter(At(fs, startIdx))))

buildGroupNodeAlwaysMust(fs, group) ==
    LET kept == FilterSeq(group.filterIndices,
                          {i \in 1..Len(group.filterIndices) :
                              group.filterIndices[i] < Len(fs)}, 1)
    IN Then([i \in 1..Len(kept) |-> FilterNode(toKibanaFilter(At(fs, kept[i])))],
            LAMBDA groupFilters :
                IF Len(groupFilters) = 0 THEN FilterNode(EmptyKibanaFilter)
                ELSE IF Len(groupFilters) = 1 THEN groupFilters[1]
                ELSE MustNode(groupFilters))

buildGroupNode(fs, group) ==
    LET kept == FilterSeq(group.filterIndices,
                          {i \in 1..Len(group.filterIndices) :
                              group.filterIndices[i] < Len(fs)}, 1)
    IN Then([i \in 1..Len(kept) |-> FilterNode(toKibanaFilter(At(fs, kept[i])))],
            LAMBDA groupFilters :
                IF Len(groupFilters) = 0 THEN FilterNode(EmptyKibanaFilter)
                ELSE IF Len(groupFilters) = 1 THEN groupFilters[1]
                ELSE IF group.type = "OR" THEN ShouldNode(groupFilters)
                ELSE MustNode(groupFilters))

\* the segments of [currentIdx, endIdx]: explicit groups and ungrouped runs
RECURSIVE buildSegments(_, _, _)
buildSegments(sortedGroups, currentIdx, endIdx) ==
    IF currentIdx > endIdx THEN <<>>
    ELSE LET starting == {i \in 1..Len(sortedGroups) :
                             MathMin(sortedGroups[i].filterIndices) = currentIdx}
         IN IF starting # {}
            THEN LET group == sortedGroups[CHOOSE i \in starting : \A j \in starting : i <= j]
                     groupEnd == MathMax(group.filterIndices)
                 IN <<[type |-> "group", group |-> group,
                       startIdx |-> currentIdx, endIdx |-> groupEnd]>>
                    \o buildSegments(sortedGroups, groupEnd + 1, endIdx)
            ELSE LET laterStarts == {MathMin(sortedGroups[i].filterIndices) :
                                        i \in 1..Len(sortedGroups)}
                                    \ (0 - Infinity)..currentIdx
                     segmentEnd ==
                         IF laterStarts # {}
                         THEN LET nextGroupStart ==
                                     CHOOSE a \in laterStarts : \A b \in laterStarts : a <= b
                              IN IF nextGroupStart - 1 < endIdx
                                 THEN nextGroupStart - 1 ELSE endIdx
                         ELSE endIdx
                 IN <<[type |-> "filter", group |-> Group(0, NONE, <<>>),
                       startIdx |-> currentIdx, endIdx |-> segmentEnd]>>
                    \o buildSegments(sortedGroups, segmentEnd + 1, endIdx)

segmentNode(fs, seg) ==
    IF seg.type = "group" THEN buildGroupNode(fs, seg.group)
    ELSE buildFlatAST(fs, seg.startIdx, seg.endIdx)

RECURSIVE combineSegments(_, _, _, _)
combineSegments(fs, segments, i, res) ==
    IF i >= Len(segments) THEN res
    ELSE LET seg == At(segments, i)
             operator == logicOrAnd(At(fs, seg.startIdx))
         IN Then(segmentNode(fs, seg), LAMBDA nextNode :
            combineSegments(fs, segments, i + 1,
                IF operator = "OR" THEN ShouldNode(<<res, nextNode>>)
                ELSE MustNode(<<res, nextNode>>)))

\* buildASTWithGroups that returns the subtree of the first segment
buildASTWithGroupsFirstSegment(fs, gs, startIdx, endIdx) ==
    Then(SortByStart(gs), LAMBDA sortedGroups :
    Then(buildSegments(sortedGroups, startIdx, endIdx), LAMBDA segments :
         segmentNode(fs, At(segments, 0))))

buildASTWithGroups(fs, gs, startIdx, endIdx) ==
    Then(SortByStart(gs), LAMBDA sortedGroups :
    Then(buildSegments(sortedGroups, startIdx, endIdx), LAMBDA segments :
    Then(segmentNode(fs, At(segments, 0)), LAMBDA first :
         IF Len(segments) = 1 THEN first
         ELSE combineSegments(fs, segments, 1, first))))

buildGroupedASTRecursive(fs, gs, startIdx, endIdx) ==
    IF startIdx > endIdx THEN NullAST
    ELSE IF startIdx = endIdx THEN FilterNode(toKibanaFilter(At(fs, startIdx)))
    ELSE Then(FilterSeq(gs, {i \in 1..Len(gs) :
                               /\ MathMin(gs[i].filterIndices) >= startIdx
                               /\ MathMax(gs[i].filterIndices) <= endIdx}, 1),
              LAMBDA groupsInRange :
                  IF Len(groupsInRange) = 0 THEN buildFlatAST(fs, startIdx, endIdx)
                  ELSE buildASTWithGroups(fs, groupsInRange, startIdx, endIdx))

buildGroupedAST(fs, gs) ==
    IF Len(fs) = 0 THEN NullAST
    ELSE Then(enabledOf(fs), LAMBDA enabledFilters :
              IF Len(enabledFilters) = 0 THEN NullAST
              ELSE IF Len(enabledFilters) = 1
                   THEN FilterNode(toKibanaFilter(At(enabledFilters, 0)))
                   ELSE buildGroupedASTRecursive(enabledFilters, gs, 0,
                                                 Len(enabledFilters) - 1))

RECURSIVE groupedAstToEsQuery(_)
groupedAstToEsQuery(ast) ==
    CASE ast.type = "null" -> MatchAll
      [] ast.type = "filter" -> leafToEsQuery(ast.filter)
      [] ast.type = "bool" ->
           LET b == ast.bool
               mustQueries ==
                   dropEmpty([i \in 1..Len(b.must) |-> groupedAstToEsQuery(b.must[i])])
               shouldQueries ==
                   dropEmpty([i \in 1..Len(b.should) |-> groupedAstToEsQuery(b.should[i])])
               mustNotQueries ==
                   dropEmpty([i \in 1..Len(b.must_not) |-> groupedAstToEsQuery(b.must_not[i])])
           IN boolClauseOf(b, mustQueries, shouldQueries, mustNotQueries)
      [] ast.type = "group" ->
           LET children == dropEmpty([i \in 1..Len(ast.group.children) |->
                                         groupedAstToEsQuery(ast.group.children[i])])
           IN IF Len(children) = 0 THEN MatchAll
              ELSE IF Len(children) = 1 THEN children[1]
              ELSE IF ast.group.type = "OR" THEN ShouldDoc(children)
              ELSE MustDoc(children)
      [] OTHER -> MatchAll

buildEsQueryFromGroupedFilters(fs, gs) ==
    IF Len(fs) = 0 THEN QueryWrapper(MatchAll)
    ELSE Then(buildGroupedAST(fs, gs), LAMBDA ast :
              IF ast.type = "null" THEN QueryWrapper(MatchAll)
              ELSE QueryWrapper(groupedAstToEsQuery(ast)))

----------------------------------------------------------------------------
(* Inputs of the compiler calls *)

Names == <<"A", "B", "C", "D", "E", "F", "G">>

Vals == <<"a", "b", "c", "d", "e", "f", "g">>

Logics == {NONE, "AND", "OR"}

\* Clause sequences that differ in connectors and disabled flags only
FoldInputs ==
    UNION {{[i \in 1..n |-> Clause(Names[i], "is", Str(Vals[i]), lg[i], ds[i])] :
               lg \in [1..n -> Logics], ds \in [1..n -> BOOLEAN]} : n \in 0..MaxFilters}

\* Enabled clauses of every operator kind on the field f, and one without a field
LeafClauses(f, logic) ==
    {Clause(f, "is", Str("active"), logic, FALSE),
     Clause(f, "is", Str("42"), logic, FALSE),
     Clause(f, "is_not", Str("deleted"), logic, FALSE),
     Clause(f, "is_not", Num(7), logic, FALSE),
     Clause(f, "is_one_of", Str("a, b"), logic, FALSE),
     Clause(f, "is_not_one_of", List(<<Str("a"), Str("b")>>), logic, FALSE),
     Clause(f, "exists", Undef, logic, FALSE),
     Clause(f, "does_not_exist", Undef, logic, FALSE),
     Clause(f, "prefix", Str("ab"), logic, FALSE),
     Clause(f, "wildcard", Str(""), logic, FALSE),
     Clause(f, "query_string", Str("x"), logic, FALSE),
     Clause(f, "fuzzy", Str("x"), logic, FALSE),
     Clause("", "is", Str("x"), logic, FALSE),
     Clause(f, "prefix", Str(""), logic, FALSE),
     RangeClause(f, Num(0), Num(10), NONE, "lte", logic, FALSE),
     RangeClause(f, Num(5), Undef, NONE, NONE, logic, FALSE),
     RangeClause(f, Undef, Undef, NONE, NONE, logic, FALSE)}

LeafFields == <<"A.keyword", "B", "C", "D">>

LeafClausesAt(i) == UNION {LeafClauses(LeafFields[i], lg) : lg \in {NONE, "OR"}}

\* Sequences of n clauses, the i-th on the i-th field
RECURSIVE LeafSeqs(_)
LeafSeqs(n) ==
    IF n = 0 THEN {<<>>}
    ELSE {Append(s, c) : s \in LeafSeqs(n - 1), c \in LeafClausesAt(n)}

LeafInputs == UNION {LeafSeqs(n) : n \in 1..MaxLeafFilters}

\* FilterRow objects for a clause sequence: row i carries clause i and its connector
filterRows(fs) ==
    [i \in 1..Len(fs) |->
        [clause |-> [id |-> i, field |-> fs[i].field, operator |-> fs[i].operator,
                     value |-> fs[i].value,
                     values |-> IF fs[i].value.t = "list" THEN fs[i].value ELSE Undef,
                     minValue |-> fs[i].minValue, maxValue |-> fs[i].maxValue,
                     minOperator |-> fs[i].minOperator, maxOperator |-> fs[i].maxOperator],
         logicOperator |-> fs[i].logic]]

\* Group sets offered to buildEsQueryFromGroupedFilters
InputGroupSets(n) ==
    {<<>>} \cup (IF n >= 2 THEN {<<Group(1, "OR", <<0, 1>>)>>} ELSE {})

----------------------------------------------------------------------------
(* Compiler calls: each applies one public function to the input *)

IdleManager ==
    /\ selectedIndices = <<>>
    /\ lastClickedIndex = -1
    /\ separators = <<>>
    /\ queryDSL = QueryWrapper(MatchAll)
    /\ emitted = <<>>
    /\ nextGroupId = 1

InitFold ==
    /\ filters \in FoldInputs
    /\ groups = <<>>
    /\ op = [name |-> "init"]
    /\ result = NullQuery
    /\ IdleManager

InitLeaf ==
    /\ filters \in LeafInputs
    /\ groups \in InputGroupSets(Len(filters))
    /\ op = [name |-> "init"]
    /\ result = NullQuery
    /\ IdleManager

Returned(name, value) ==
    /\ op.name = "init"
    /\ op' = [name |-> name]
    /\ result' = value
    /\ UNCHANGED <<filters, groups, selectedIndices, lastClickedIndex, separators,
                   queryDSL, emitted, nextGroupId>>

CallBuildEsQueryFromFilters ==
    Returned("buildEsQueryFromFilters", buildEsQueryFromFilters(filters))

CallBuildEsQueryFromGroupedFilters ==
    Returned("buildEsQueryFromGroupedFilters", buildEsQueryFromGroupedFilters(filters, groups))

CallBuildFilterASTWithOperators ==
    Returned("buildFilterASTWithOperators", buildFilterASTWithOperators(filters))

CallBuildPreviewString ==
    Returned("buildPreviewString", buildPreviewString(filters))

CallBuildAST ==
    Returned("buildAST", buildAST(filterRows(filters)))

CallGeneratePreview ==
    Returned("generatePreview", generatePreview(buildAST(filterRows(filters))))

CallToQueryDSL ==
    Returned("toQueryDSL", toQueryDSL(buildAST(filterRows(filters))))

NextCompile ==
    \/ CallToQueryDSL
    \/ CallBuildEsQueryFromFilters
    \/ CallBuildEsQueryFromGroupedFilters
    \/ CallBuildFilterASTWithOperators
    \/ CallBuildPreviewString
    \/ CallBuildAST
    \/ CallGeneratePreview

SpecFold == InitFold /\ [][NextCompile]_vars

SpecLeaf == InitLeaf /\ [][NextCompile]_vars

----------------------------------------------------------------------------
(* An AST of the service under addClause, removeClause and updateClause.    *)
(* result is the AST; filters lists the clauses created so far, the id of   *)
(* a clause being its position in that list.                                *)

\* Enabled clause lists of every connector pattern
ServiceClauseLists ==
    UNION {{[i \in 1..n |-> Clause(Names[i], "is", Str(Vals[i]), lg[i], FALSE)] :
               lg \in [1..n -> Logics]} : n \in 0..MaxFilters}

InitService ==
    /\ filters \in ServiceClauseLists
    /\ groups = <<>>
    /\ op = [name |-> "buildAST"]
    /\ result = buildAST(filterRows(filters))
    /\ IdleManager

ServiceReturned(name, created, ast) ==
    /\ op' = [name |-> name]
    /\ filters' = created
    /\ result' = ast
    /\ UNCHANGED <<groups, selectedIndices, lastClickedIndex, separators, queryDSL,
                   emitted, nextGroupId>>

AddClause ==
    /\ Len(filters) < MaxFilters
    /\ \E operator \in {"AND", "OR"} :
          \E created \in {Append(filters, Clause(Names[Len(filters) + 1], "is",
                                                 Str(Vals[Len(filters) + 1]), operator,
                                                 FALSE))} :
             ServiceReturned("addClause", created,
                             addClause(result, filterRows(created)[Len(created)].clause,
                                       operator))

RemoveClause ==
    \E clauseId \in 1..Len(filters) :
        ServiceReturned("removeClause", filters, removeClause(result, clauseId))

UpdateClause ==
    \E clauseId \in 1..Len(filters), updates \in {[operator |-> "is_not"]} :
        ServiceReturned("updateClause", filters, updateClause(result, clauseId, updates))

NextService ==
    \/ AddClause
    \/ RemoveClause
    \/ UpdateClause

SpecService == InitService /\ [][NextService]_vars

----------------------------------------------------------------------------
(* Filter group manager and the dashboard wrapper that owns the state.     *)
(*                                                                         *)
(* The wrapper's activeFilters holds the filters array, the groups array   *)
(* and queryDSL; the manager's filters and groups inputs are bound to      *)
(* them.  The filters array is one shared array object.  The manager's     *)
(* emitters are synchronous: the wrapper's handler runs inside emit().     *)
(* A handler that assigns a new groups array to activeFilters leaves the   *)
(* manager's groups input on the previous array until the operation has    *)
(* returned; the input is then rebound and ngOnChanges runs when the       *)
(* bound array object changed.                                             *)

Includes(seq, x) == \E i \in 1..Len(seq) : seq[i] = x

\* positions (1-based) of the groups with the given id
GroupPositions(gs, groupId) == {i \in 1..Len(gs) : gs[i].id = groupId}

\* groups.find(g => g.id === groupId) / findIndex, as a 1-based position, 0 if none
FindGroup(gs, groupId) ==
    IF GroupPositions(gs, groupId) = {} THEN 0
    ELSE CHOOSE i \in GroupPositions(gs, groupId) :
             \A j \in GroupPositions(gs, groupId) : i <= j

\* array without the element at 1-based position k (splice(k - 1, 1))
RemoveAt(seq, k) == [i \in 1..(Len(seq) - 1) |-> IF i < k THEN seq[i] ELSE seq[i + 1]]

\* filterIndices.filter(idx => idx !== index).map(idx => idx > index ? idx - 1 : idx)
adjustIndices(filterIndices, index) ==
    LET kept == FilterSeq(filterIndices,
                          {i \in 1..Len(filterIndices) : filterIndices[i] # index}, 1)
    IN [i \in 1..Len(kept) |-> IF kept[i] > index THEN kept[i] - 1 ELSE kept[i]]

\* sortedIndices.every((idx, i) => i === 0 || idx === sortedIndices[i - 1] + 1)
isContiguous(sortedIndices) ==
    \A i \in 2..Len(sortedIndices) : sortedIndices[i] = sortedIndices[i - 1] + 1

\* [...selectedIndices].sort((a, b) => a - b)
sortIndices(indices) == SortSeq(indices, LAMBDA a, b : a < b)

\* group metadata cleared on the filters at the given 0-based indices
clearMetadata(fs, indices) ==
    [i \in 1..Len(fs) |->
        IF Includes(indices, i - 1) THEN [fs[i] EXCEPT !.groupMeta = NoMeta] ELSE fs[i]]

updateFilterMetadata(fs, indices, groupId, groupType) ==
    [i \in 1..Len(fs) |->
        IF Includes(indices, i - 1)
        THEN [fs[i] EXCEPT !.groupMeta =
                 [groupId |-> groupId, groupType |-> groupType,
                  isGroupStart |-> (i - 1 = indices[1]),
                  isGroupEnd |-> (i - 1 = indices[Len(indices)])]]
        ELSE fs[i]]

determineSeparator(fs, gs, index) ==
    LET prevGroupId == At(fs, index - 1).groupMeta.groupId
        currFilter == At(fs, index)
        currGroupId == currFilter.groupMeta.groupId
    IN IF prevGroupId # 0 /\ currGroupId # 0 /\ prevGroupId = currGroupId
       THEN [position |-> "before", index |-> index,
             type |-> IF FindGroup(gs, prevGroupId) # 0
                      THEN gs[FindGroup(gs, prevGroupId)].type ELSE "AND",
             isGroupBoundary |-> FALSE, groupId |-> prevGroupId]
       ELSE [position |-> "before", index |-> index,
             type |-> logicOrAnd(currFilter),
             isGroupBoundary |-> (prevGroupId # 0 \/ currGroupId # 0),
             groupId |-> currGroupId]

calculateSeparators(fs, gs) ==
    IF Len(fs) <= 1 THEN <<>>
    ELSE [i \in 1..(Len(fs) - 1) |-> determineSeparator(fs, gs, i)]

\* events recorded in emitted
Event(ev, gs, index) == [ev |-> ev, groups |-> gs, index |-> index]

----------------------------------------------------------------------------
(* DashboardFilterWrapperComponent handlers over activeFilters *)

\* activeFilters === null
NoActiveFilters == [k |-> "null"]

ActiveFilters(fs, gs, dsl) == [filters |-> fs, groups |-> gs, queryDSL |-> dsl]

regenerateQueryDSL(af) ==
    IF af = NoActiveFilters THEN af
    ELSE [af EXCEPT !.queryDSL = buildEsQueryFromGroupedFilters(af.filters, af.groups)]

onGroupsChanged(af, gs) ==
    IF af = NoActiveFilters THEN af
    ELSE Then([af EXCEPT !.groups = gs], regenerateQueryDSL)

\* the event carries the manager's filters and groups inputs
onFilterGroupChanged(af, fs, gs) == Then(ActiveFilters(fs, gs, NullQuery), regenerateQueryDSL)

\* the group bookkeeping of the wrapper's removeFilter, before the splice
wrapperAdjustGroups(af, index) ==
    LET groupId == At(af.filters, index).groupMeta.groupId
        groupIndex == FindGroup(af.groups, groupId)
    IN IF groupId = 0 \/ groupIndex = 0 THEN af
       ELSE LET updatedIndices == adjustIndices(af.groups[groupIndex].filterIndices, index)
            IN IF Len(updatedIndices) < 2
               THEN [af EXCEPT !.groups = RemoveAt(af.groups, groupIndex),
                               !.filters = clearMetadata(af.filters, updatedIndices)]
               ELSE [af EXCEPT !.groups[groupIndex].filterIndices = updatedIndices]

\* the wrapper's removeFilter; activeFilters becomes null when no filter remains
clearFilters(af) == NoActiveFilters

wrapperRemoveFilter(af, index) ==
    IF af = NoActiveFilters THEN af
    ELSE Then(wrapperAdjustGroups(af, index), LAMBDA adjusted :
         Then([adjusted EXCEPT !.filters = RemoveAt(adjusted.filters, index + 1)],
              LAMBDA spliced :
                  IF Len(spliced.filters) = 0 THEN clearFilters(spliced)
                  ELSE regenerateQueryDSL(spliced)))

----------------------------------------------------------------------------
(* The two components during one operation.  active is the wrapper's       *)
(* activeFilters; its filters array is the array the manager's filters     *)
(* input is bound to.  groups is the array the manager's groups input      *)
(* holds; rebound says that activeFilters.groups is a different array      *)
(* object from it.                                                         *)

Components ==
    [active |-> IF Len(filters) = 0 THEN NoActiveFilters
                ELSE ActiveFilters(filters, groups, queryDSL),
     groups |-> groups, rebound |-> FALSE,
     selectedIndices |-> selectedIndices, lastClickedIndex |-> lastClickedIndex,
     separators |-> separators, nextGroupId |-> nextGroupId,
     emitted |-> <<>>, outcome |-> "none"]

\* this.filters of the manager
filtersOf(c) == IF c.active = NoActiveFilters THEN <<>> ELSE c.active.filters

\* (groupsChanged)="onGroupsChanged($event)": the handler runs inside emit()
groupsChangedEmit(c, gs) ==
    [c EXCEPT !.active = onGroupsChanged(@, gs),
              !.rebound = (c.active # NoActiveFilters),
              !.emitted = Append(@, Event("groupsChanged", gs, -1))]

\* (filtersChanged)="onFilterGroupChanged($event)"
filtersChangedEmit(c, fs, gs) ==
    [c EXCEPT !.active = onFilterGroupChanged(@, fs, gs),
              !.rebound = FALSE,
              !.emitted = Append(@, Event("filtersChanged", gs, -1))]

\* (filterRemoved)="removeFilter($event)"
filterRemovedEmit(c, index) ==
    Then(wrapperRemoveFilter(c.active, index), LAMBDA af :
        [c EXCEPT !.active = af,
                  !.rebound = (c.rebound \/ af = NoActiveFilters),
                  !.emitted = Append(@, Event("filterRemoved", <<>>, index))])

emitFilterState(c) == filtersChangedEmit(c, filtersOf(c), c.groups)

clearSelection(c) == [c EXCEPT !.selectedIndices = <<>>, !.lastClickedIndex = -1]

\* this.filters[idx].groupMeta assignments act on the shared filters array
withFilters(c, fs) ==
    IF c.active = NoActiveFilters THEN c ELSE [c EXCEPT !.active.filters = fs]

recalculateSeparators(c) ==
    [c EXCEPT !.separators = calculateSeparators(filtersOf(c), c.groups)]

ngOnChanges(c, changed) == IF changed THEN recalculateSeparators(c) ELSE c

\* change detection after the operation: the groups input takes the array of
\* activeFilters (none when activeFilters is null), ngOnChanges runs if it is
\* another array object
detectChanges(c) ==
    ngOnChanges([c EXCEPT !.groups = IF c.active = NoActiveFilters THEN <<>>
                                     ELSE c.active.groups,
                          !.rebound = FALSE],
                c.rebound)

----------------------------------------------------------------------------
(* FilterGroupManagerComponent operations *)

\* Array.from({ length: end - start + 1 }, (_, i) => start + i)
indexRange(start, end) == [i \in 1..(end - start + 1) |-> start + i - 1]

\* selectedIndices.indexOf(index) as a 1-based position, 0 if absent
indexOf(seq, x) ==
    IF Includes(seq, x) THEN CHOOSE i \in 1..Len(seq) :
                                 seq[i] = x /\ \A j \in 1..(i - 1) : seq[j] # x
    ELSE 0

\* selectFilter whose range starts at the last clicked index without taking
\* the smaller of the two ends
selectFilterForwardRange(c, index, mode) ==
    LET selected ==
            IF mode \in {"shift", "shift+ctrl"} /\ c.lastClickedIndex # -1
            THEN indexRange(c.lastClickedIndex, index)
            ELSE IF mode \in {"ctrl", "shift+ctrl"}
            THEN IF indexOf(c.selectedIndices, index) > 0
                 THEN RemoveAt(c.selectedIndices, indexOf(c.selectedIndices, index))
                 ELSE Append(c.selectedIndices, index)
            ELSE <<index>>
    IN [c EXCEPT !.selectedIndices = selected, !.lastClickedIndex = index]

\* mode is "shift", "ctrl" (ctrlKey or metaKey), "shift+ctrl" (both) or "plain"
\* (no modifier, or no event)
selectFilter(c, index, mode) ==
    LET selected ==
            IF mode \in {"shift", "shift+ctrl"} /\ c.lastClickedIndex # -1
            THEN indexRange(MathMin(<<c.lastClickedIndex, index>>),
                            MathMax(<<c.lastClickedIndex, index>>))
            ELSE IF mode \in {"ctrl", "shift+ctrl"}
            THEN IF indexOf(c.selectedIndices, index) > 0
                 THEN RemoveAt(c.selectedIndices, indexOf(c.selectedIndices, index))
                 ELSE Append(c.selectedIndices, index)
            ELSE <<index>>
    IN [c EXCEPT !.selectedIndices = selected, !.lastClickedIndex = index]

\* this.groups.filter(g => !sortedIndices.some(idx => g.filterIndices.includes(idx)))
withoutOverlapping(gs, sortedIndices) ==
    FilterSeq(gs, {i \in 1..Len(gs) :
                      ~\E k \in 1..Len(sortedIndices) :
                          Includes(gs[i].filterIndices, sortedIndices[k])}, 1)

\* createGroupFromSelection once the selection has passed its checks
createGroup(c, type, sortedIndices) ==
    LET groupId == c.nextGroupId
        updatedGroups == Append(withoutOverlapping(c.groups, sortedIndices),
                                Group(groupId, type, sortedIndices))
    IN Then(withFilters(c, updateFilterMetadata(filtersOf(c), sortedIndices, groupId, type)),
            LAMBDA tagged :
       Then(groupsChangedEmit(tagged, updatedGroups), LAMBDA changed :
       Then(emitFilterState(changed), LAMBDA notified :
            [clearSelection(notified) EXCEPT !.nextGroupId = groupId + 1,
                                             !.outcome = "created"])))

\* createGroupFromSelection without the contiguity check
createGroupFromSelectionUnchecked(c, type) ==
    IF Len(c.selectedIndices) < 2 THEN [c EXCEPT !.outcome = "ignored"]
    ELSE createGroup(c, type, sortIndices(c.selectedIndices))

createGroupFromSelection(c, type) ==
    IF Len(c.selectedIndices) < 2 THEN [c EXCEPT !.outcome = "ignored"]
    ELSE IF ~isContiguous(sortIndices(c.selectedIndices))
    THEN [c EXCEPT !.emitted = Append(@, Event("warn", <<>>, -1)),
                   !.outcome = "rejected"]
    ELSE createGroup(c, type, sortIndices(c.selectedIndices))

\* removeGroup that leaves the member clauses' metadata in place
removeGroupKeepingMetadata(c, groupId) ==
    IF FindGroup(c.groups, groupId) = 0 THEN [c EXCEPT !.outcome = "ignored"]
    ELSE Then(groupsChangedEmit(c, FilterSeq(c.groups,
                                    {i \in 1..Len(c.groups) : c.groups[i].id # groupId}, 1)),
              LAMBDA changed :
         Then(emitFilterState(changed), LAMBDA notified :
              [recalculateSeparators(notified) EXCEPT !.outcome = "removed"]))

removeGroup(c, groupId) ==
    IF FindGroup(c.groups, groupId) = 0 THEN [c EXCEPT !.outcome = "ignored"]
    ELSE LET group == c.groups[FindGroup(c.groups, groupId)]
             updatedGroups == FilterSeq(c.groups,
                                        {i \in 1..Len(c.groups) : c.groups[i].id # groupId}, 1)
         IN Then(withFilters(c, clearMetadata(filtersOf(c), group.filterIndices)),
                 LAMBDA cleared :
            Then(groupsChangedEmit(cleared, updatedGroups), LAMBDA changed :
            Then(emitFilterState(changed), LAMBDA notified :
                 [recalculateSeparators(notified) EXCEPT !.outcome = "removed"])))

createImplicitGroup(c, filterIndex, type) ==
    IF filterIndex >= Len(filtersOf(c)) - 1
    THEN [c EXCEPT !.selectedIndices = <<filterIndex>>,
                   !.lastClickedIndex = filterIndex,
                   !.outcome = "selected"]
    ELSE createGroupFromSelection(
             [c EXCEPT !.selectedIndices = <<filterIndex, filterIndex + 1>>], type)

\* the group branch of the manager's removeFilter
removeFromGroup(c, index) ==
    LET groupId == At(filtersOf(c), index).groupMeta.groupId
        pos == FindGroup(c.groups, groupId)
    IN IF groupId = 0 \/ pos = 0 THEN c
       ELSE LET updatedIndices == adjustIndices(c.groups[pos].filterIndices, index)
            IN IF Len(updatedIndices) < 2 THEN removeGroup(c, groupId)
               ELSE groupsChangedEmit(c,
                        [i \in 1..Len(c.groups) |->
                            IF c.groups[i].id = groupId
                            THEN [c.groups[i] EXCEPT !.filterIndices = updatedIndices]
                            ELSE c.groups[i]])

removeFilter(c, index) ==
    Then(removeFromGroup(c, index), LAMBDA updated :
    Then(filterRemovedEmit(updated, index), LAMBDA removed :
         [clearSelection(removed) EXCEPT !.outcome = "removed"]))

----------------------------------------------------------------------------
(* The manager bound to the wrapper: initial states and one action per      *)
(* user operation.                                                          *)

GroupTypes == {"AND", "OR"}

\* clauses A is a, B is b, ... with an OR connector on every second one
InitClauses(n) ==
    [i \in 1..n |-> Clause(Names[i], "is", Str(Vals[i]),
                           IF i % 2 = 0 THEN "OR" ELSE NONE, FALSE)]

\* group sets over n clauses: none, one group, or two groups in ascending
\* order, each contiguous with at least two members, none overlapping; their
\* ids are 101 and 102, the groups created later take 1, 2, ...
InitGroupSets(n) ==
    {<<>>}
    \cup {<<Group(101, "OR", indexRange(r[1], r[2]))>> :
             r \in {x \in (0..(n - 1)) \X (1..(n - 1)) : x[1] < x[2]}}
    \cup {<<Group(101, "OR", indexRange(0, b)),
            Group(102, "AND", indexRange(b + 1, n - 1))>> :
             b \in 1..(n - 3)}

RECURSIVE tagGroups(_, _, _)
tagGroups(fs, gs, i) ==
    IF i > Len(gs) THEN fs
    ELSE tagGroups(updateFilterMetadata(fs, gs[i].filterIndices, gs[i].id, gs[i].type),
                   gs, i + 1)

Init ==
    /\ \E n \in 1..MaxMgrFilters :
          /\ groups \in InitGroupSets(n)
          /\ filters = tagGroups(InitClauses(n), groups, 1)
    /\ selectedIndices = <<>>
    /\ lastClickedIndex = -1
    /\ separators = calculateSeparators(filters, groups)
    /\ queryDSL = buildEsQueryFromGroupedFilters(filters, groups)
    /\ emitted = <<>>
    /\ nextGroupId = 1
    /\ op = [name |-> "init"]
    /\ result = NullQuery

\* the state the components are left in when the operation has returned
Becomes(c, name, index, type, groupId) ==
    \E d \in {detectChanges(c)} :
       /\ filters' = filtersOf(d)
       /\ groups' = d.groups
       /\ queryDSL' = IF d.active = NoActiveFilters THEN NullQuery ELSE d.active.queryDSL
       /\ selectedIndices' = d.selectedIndices
       /\ lastClickedIndex' = d.lastClickedIndex
       /\ separators' = d.separators
       /\ nextGroupId' = d.nextGroupId
       /\ emitted' = d.emitted
       /\ op' = [name |-> name, outcome |-> d.outcome, index |-> index, type |-> type,
                 groupId |-> groupId]
       /\ UNCHANGED result

Indices == 0..(Len(filters) - 1)

SelectFilter ==
    \E index \in Indices, mode \in {"plain", "shift", "ctrl"} :
        /\ Len(selectFilter(Components, index, mode).selectedIndices) <= MaxSelected
        /\ Becomes(selectFilter(Components, index, mode), "selectFilter", index, NONE, 0)

ClearSelection ==
    /\ selectedIndices # <<>>
    /\ Becomes(clearSelection(Components), "clearSelection", -1, NONE, 0)

CreateGroupFromSelection ==
    \E type \in GroupTypes :
        /\ nextGroupId <= MaxGroupIds
        /\ Becomes(createGroupFromSelection(Components, type),
                   "createGroupFromSelection", -1, type, 0)

CreateImplicitGroup ==
    \E filterIndex \in Indices, type \in GroupTypes :
        /\ nextGroupId <= MaxGroupIds
        /\ Becomes(createImplicitGroup(Components, filterIndex, type),
                   "createImplicitGroup", filterIndex, type, 0)

\* the ids a remove button can carry: those of the clauses' metadata and of the groups
KnownGroupIds ==
    ({filters[i].groupMeta.groupId : i \in 1..Len(filters)}
        \cup {groups[i].id : i \in 1..Len(groups)}) \ {0}

RemoveGroup ==
    \E groupId \in KnownGroupIds :
        Becomes(removeGroup(Components, groupId), "removeGroup", -1, NONE, groupId)

RemoveFilter ==
    \E index \in Indices :
        Becomes(removeFilter(Components, index), "removeFilter", index, NONE, 0)

Next ==
    \/ SelectFilter
    \/ ClearSelection
    \/ CreateGroupFromSelection
    \/ CreateImplicitGroup
    \/ RemoveGroup
    \/ RemoveFilter

Spec == Init /\ [][Next]_vars

----------------------------------------------------------------------------
(* The selection alone: clicks with every modifier, on selections of any    *)
(* size, with the modifier recorded in op.                                  *)

Modes == {"plain", "shift", "ctrl", "shift+ctrl"}

SelectFilterWithModifier ==
    \E index \in Indices, mode \in Modes :
        \E d \in {detectChanges(selectFilter(Components, index, mode))} :
           /\ selectedIndices' = d.selectedIndices
           /\ lastClickedIndex' = d.lastClickedIndex
           /\ filters' = filtersOf(d)
           /\ groups' = d.groups
           /\ separators' = d.separators
           /\ emitted' = d.emitted
           /\ op' = [name |-> "selectFilter", index |-> index, mode |-> mode]
           /\ UNCHANGED <<queryDSL, nextGroupId, result>>

NextSelect ==
    \/ SelectFilterWithModifier
    \/ ClearSelection

SpecSelect == Init /\ [][NextSelect]_vars

----------------------------------------------------------------------------
(* The group overlay builder on clause lists with explicit groups *)

\* Clause lists of two or more clauses: every connector pattern with all
\* clauses enabled, and every disabled pattern with no connectors
GroupedClauseLists ==
    UNION {{[i \in 1..n |-> Clause(Names[i], "is", Str(Vals[i]), lg[i], FALSE)] :
               lg \in [1..n -> Logics]}
           \cup {[i \in 1..n |-> Clause(Names[i], "is", Str(Vals[i]), NONE, ds[i])] :
                    ds \in [1..n -> BOOLEAN]} :
           n \in 2..MaxFilters}

\* Group sets over n clauses: none, one AND or OR group over a contiguous
\* range, or an OR group followed, at once or after an ungrouped run, by an
\* AND group
GroupedGroupSets(n) ==
    {<<>>}
    \cup {<<Group(1, r[3], indexRange(r[1], r[2]))>> :
             r \in {x \in (0..(n - 1)) \X (0..(n - 1)) \X {"AND", "OR"} : x[1] <= x[2]}}
    \cup {<<Group(1, "OR", indexRange(r[1], r[2])), Group(2, "AND", indexRange(r[3], r[4]))>> :
             r \in {x \in (0..(n - 1)) \X (0..(n - 1)) \X (0..(n - 1)) \X (0..(n - 1)) :
                       x[1] <= x[2] /\ x[2] < x[3] /\ x[3] <= x[4]}}

InitGrouped ==
    /\ \E fs \in GroupedClauseLists :
          /\ groups \in GroupedGroupSets(Len(fs))
          /\ filters = tagGroups(fs, groups, 1)
    /\ op = [name |-> "init"]
    /\ result = NullQuery
    /\ IdleManager

CallBuildGroupedAST ==
    Returned("buildGroupedAST", buildGroupedAST(filters, groups))

NextGrouped ==
    \/ CallBuildGroupedAST
    \/ CallBuildEsQueryFromGroupedFilters

SpecGrouped == InitGrouped /\ [][NextGrouped]_vars

----------------------------------------------------------------------------
(* FilterBuilderComponent: the rows of the filter builder.  filters holds   *)
(* this.rows, result holds this.ast and this.preview, emitted the events of *)
(* the last operation, nextGroupId the next value of generateId().          *)

\* createEmptyClause() with the given id
createEmptyClause(id) ==
    [id |-> id, field |-> "", operator |-> "is", value |-> Str(""), values |-> Undef,
     minValue |-> Undef, maxValue |-> Undef, minOperator |-> NONE, maxOperator |-> NONE]

\* createFilterRow(logicOperator): the row takes the id n, its clause n + 1
createFilterRow(n, logicOperator) ==
    [id |-> n, clause |-> createEmptyClause(n + 1), logicOperator |-> logicOperator,
     level |-> 0]

\* rows.splice(k, 0, x) for a 0-based position k
InsertAt(seq, k, x) == SubSeq(seq, 1, k) \o <<x>> \o SubSeq(seq, k + 1, Len(seq))

\* the component: rows, ast, preview, the id source and the emitted events
Builder ==
    [rows |-> filters, ast |-> result.ast, preview |-> result.preview,
     ids |-> nextGroupId, emitted |-> <<>>]

updatePreview(b) ==
    Then(buildAST(b.rows), LAMBDA ast :
        [b EXCEPT !.ast = ast, !.preview = generatePreview(ast),
                  !.emitted = Append(@, Event("previewChanged", <<>>, -1))])

onRowsChanged(b) ==
    [updatePreview(b) EXCEPT !.emitted = Append(@, Event("rowsChanged", <<>>, -1))]

\* afterIndex is -1 when the argument is omitted
addRow(b, afterIndex, logicOperator) ==
    LET newRow == createFilterRow(b.ids, logicOperator)
    IN onRowsChanged(
           [b EXCEPT !.ids = @ + 2,
                     !.rows = IF afterIndex < 0 \/ afterIndex >= Len(b.rows)
                              THEN Append(b.rows, newRow)
                              ELSE InsertAt(b.rows, afterIndex + 1, newRow)])

removeRow(b, index) ==
    IF index < 0 \/ index >= Len(b.rows) THEN b
    ELSE Then([b EXCEPT !.rows = RemoveAt(b.rows, index + 1)], LAMBDA spliced :
         Then(IF index = 0 /\ Len(spliced.rows) > 0
              THEN [spliced EXCEPT !.rows[1].logicOperator = NONE]
              ELSE spliced, LAMBDA cleared :
         Then(IF Len(cleared.rows) = 0 THEN addRow(cleared, -1, "AND") ELSE cleared,
              onRowsChanged)))

duplicateRow(b, index) ==
    IF index < 0 \/ index >= Len(b.rows) THEN b
    ELSE LET sourceRow == At(b.rows, index)
             newRow == [id |-> b.ids,
                        clause |-> [sourceRow.clause EXCEPT !.id = b.ids + 1],
                        logicOperator |-> "AND", level |-> sourceRow.level]
         IN onRowsChanged([b EXCEPT !.ids = @ + 2,
                                    !.rows = InsertAt(b.rows, index + 1, newRow)])

\* the rows with those at the 0-based positions i and j exchanged
SwapRows(rows, i, j) ==
    [k \in 1..Len(rows) |-> IF k = i + 1 THEN rows[j + 1]
                            ELSE IF k = j + 1 THEN rows[i + 1] ELSE rows[k]]

moveRow(b, index, direction) ==
    IF direction = "up" /\ index > 0
    THEN onRowsChanged([b EXCEPT !.rows = SwapRows(b.rows, index, index - 1)])
    ELSE IF direction = "down" /\ index < Len(b.rows) - 1
    THEN onRowsChanged([b EXCEPT !.rows = SwapRows(b.rows, index, index + 1)])
    ELSE b

updateLogicOperator(b, rowIndex, operator) ==
    IF rowIndex <= 0 \/ rowIndex >= Len(b.rows) THEN b
    ELSE onRowsChanged([b EXCEPT !.rows[rowIndex + 1].logicOperator = operator])

ngOnInit(b, initialRows) ==
    updatePreview(IF Len(initialRows) > 0 THEN [b EXCEPT !.rows = initialRows]
                  ELSE addRow(b, -1, "AND"))

\* the initialRows input: none, or the rows A is a, OR B is b with ids 101..104
InitialRowSets ==
    {<<>>,
     <<[id |-> 101, clause |-> [filterRows(InitClauses(2))[1].clause EXCEPT !.id = 102],
        logicOperator |-> NONE, level |-> 0],
       [id |-> 103, clause |-> [filterRows(InitClauses(2))[2].clause EXCEPT !.id = 104],
        logicOperator |-> "OR", level |-> 0]>>}

\* the component as constructed, before ngOnInit
InitBuilder ==
    /\ filters = <<>>
    /\ groups = <<>>
    /\ op = [name |-> "init"]
    /\ result = [ast |-> NullAST, preview |-> ""]
    /\ IdleManager

BuilderBecomes(b, name) ==
    /\ filters' = b.rows
    /\ result' = [ast |-> b.ast, preview |-> b.preview]
    /\ emitted' = b.emitted
    /\ nextGroupId' = b.ids
    /\ op' = [name |-> name]
    /\ UNCHANGED <<groups, selectedIndices, lastClickedIndex, separators, queryDSL>>

NgOnInit ==
    /\ op.name = "init"
    /\ \E initialRows \in InitialRowSets :
          BuilderBecomes(ngOnInit(Builder, initialRows), "ngOnInit")

\* generateId() has values left and the row list has room
CanCreateRow == nextGroupId < MaxRowIds /\ Len(filters) < MaxFilters

AddRow ==
    /\ op.name # "init"
    /\ CanCreateRow
    /\ \E afterIndex \in -1..(Len(filters) - 1), logicOperator \in {"AND", "OR"} :
          BuilderBecomes(addRow(Builder, afterIndex, logicOperator), "addRow")

RemoveRow ==
    /\ op.name # "init"
    /\ Len(filters) > 1 \/ nextGroupId < MaxRowIds
    /\ \E index \in 0..(Len(filters) - 1) :
          BuilderBecomes(removeRow(Builder, index), "removeRow")

DuplicateRow ==
    /\ op.name # "init"
    /\ CanCreateRow
    /\ \E index \in 0..(Len(filters) - 1) :
          BuilderBecomes(duplicateRow(Builder, index), "duplicateRow")

MoveRow ==
    /\ op.name # "init"
    /\ \E index \in 0..(Len(filters) - 1), direction \in {"up", "down"} :
          BuilderBecomes(moveRow(Builder, index, direction), "moveRow")

UpdateLogicOperator ==
    /\ op.name # "init"
    /\ \E rowIndex \in 0..(Len(filters) - 1), operator \in {"AND", "OR"} :
          BuilderBecomes(updateLogicOperator(Builder, rowIndex, operator),
                         "updateLogicOperator")

NextBuilder ==
    \/ NgOnInit
    \/ AddRow
    \/ RemoveRow
    \/ DuplicateRow
    \/ MoveRow
    \/ UpdateLogicOperator

SpecBuilder == InitBuilder /\ [][NextBuilder]_vars

----------------------------------------------------------------------------
(* Reference trees used to state the properties *)

\* connector of a clause, AND when it carries none
ConnectorOf(f) == IF f.logic = "OR" THEN "OR" ELSE "AND"

DeleteDisabled(fs) == SelectSeq(fs, LAMBDA f : ~f.disabled)

NoneDisabled(fs) == \A i \in 1..Len(fs) : ~fs[i].disabled

LeafTree(x) == [leaf |-> x]

BoolTree(o, kids) == [bop |-> o, kids |-> kids]

IsBoolTree(t) == "bop" \in DOMAIN t

\* the left-to-right fold: append to a Bool of the same operator, else wrap
RECURSIVE FoldTree(_, _, _)
FoldTree(items, i, cur) ==
    IF i > Len(items) THEN cur
    ELSE FoldTree(items, i + 1,
                  IF IsBoolTree(cur) /\ cur.bop = items[i].con
                  THEN BoolTree(cur.bop, Append(cur.kids, LeafTree(items[i].leaf)))
                  ELSE BoolTree(items[i].con, <<cur, LeafTree(items[i].leaf)>>))

\* fold of the leaves, leaf i joined to its predecessor by connector cons[i]
LeftFold(leaves, cons) ==
    FoldTree([i \in 1..Len(leaves) |-> [leaf |-> leaves[i], con |-> cons[i]]], 2,
             LeafTree(leaves[1]))

\* connectors when clause i carries the connector to its predecessor
ConsBefore(fs) == [i \in 1..Len(fs) |-> ConnectorOf(fs[i])]

\* connectors when clause i carries the connector to its successor
ConsAfter(fs) == [i \in 1..Len(fs) |-> IF i = 1 THEN "AND" ELSE ConnectorOf(fs[i - 1])]

FieldsOf(fs) == [i \in 1..Len(fs) |-> fs[i].field]

\* shape of a utility AST: leaves by field name, bool nodes by operator
RECURSIVE ShapeOf(_)
ShapeOf(ast) ==
    CASE ast.type = "filter" -> LeafTree(ast.filter.meta.field)
      [] ast.type = "bool" /\ ast.bool.keys = {"must"} ->
           BoolTree("AND", [i \in 1..Len(ast.bool.must) |-> ShapeOf(ast.bool.must[i])])
      [] ast.type = "bool" /\ ast.bool.keys = {"should", "minimum_should_match"}
                           /\ ast.bool.minimum_should_match = 1 ->
           BoolTree("OR", [i \in 1..Len(ast.bool.should) |-> ShapeOf(ast.bool.should[i])])
      [] OTHER -> [bad |-> ast.type]

\* shape of a FilterAstService AST
RECURSIVE ServiceShapeOf(_)
ServiceShapeOf(ast) ==
    CASE ast.type = "clause" -> LeafTree(ast.clause.field)
      [] ast.type = "group" ->
           BoolTree(ast.operator,
                    [i \in 1..Len(ast.children) |-> ServiceShapeOf(ast.children[i])])
      [] OTHER -> [bad |-> ast.type]

\* document of a tree whose leaves are documents
RECURSIVE DocOfTree(_)
DocOfTree(t) ==
    IF ~IsBoolTree(t) THEN t.leaf
    ELSE LET docs == [i \in 1..Len(t.kids) |-> DocOfTree(t.kids[i])]
         IN IF t.bop = "OR" THEN ShouldDoc(docs) ELSE MustDoc(docs)

\* minimally parenthesized text of a tree whose leaves are texts
RECURSIVE TextOfTree(_, _)
TextOfTree(t, parent) ==
    IF ~IsBoolTree(t) THEN t.leaf
    ELSE LET joined == JoinStrings([i \in 1..Len(t.kids) |-> TextOfTree(t.kids[i], t.bop)],
                                   " " \o t.bop \o " ")
         IN IF parent # NONE /\ parent # t.bop THEN "(" \o joined \o ")" ELSE joined

\* the clause sequence is enabled throughout and clause i > 1 carries connector cons[i]
HasConnectors(fs, cons) ==
    /\ Len(fs) = Len(cons)
    /\ NoneDisabled(fs)
    /\ \A i \in 2..Len(fs) : fs[i].logic = cons[i]

UniformConnectors(fs) ==
    \A i \in 2..Len(fs) : ConnectorOf(fs[i]) = ConnectorOf(fs[2])

\* fields named by the leaf queries of a document
RECURSIVE DocFields(_)
DocFields(doc) ==
    CASE doc.k = "bool" ->
           UNION {DocFields(doc.must[i]) : i \in 1..Len(doc.must)}
             \cup UNION {DocFields(doc.should[i]) : i \in 1..Len(doc.should)}
             \cup UNION {DocFields(doc.must_not[i]) : i \in 1..Len(doc.must_not)}
      [] doc.k \in {"match_all", "null"} -> {}
      [] doc.k = "query_string" -> {doc.default_field}
      [] OTHER -> {doc.field}

----------------------------------------------------------------------------
(* Negated clauses *)

IsCompileCall == op.name \in {"buildEsQueryFromFilters", "buildEsQueryFromGroupedFilters"}

\* exactly one negation level around a positive leaf query
SingleNegation(doc) ==
    /\ doc.k = "bool"
    /\ doc.keys = {"must_not"}
    /\ Len(doc.must_not) = 1
    /\ doc.must_not[1].k \in {"term", "match", "terms", "exists"}

\* C1: a clause whose operator is is_not, is_not_one_of or does_not_exist
\* appears in the compiled document as exactly one must_not around the
\* positive term/match/terms/exists query (here: a single-clause input, whose
\* document is the clause's own).
C1_SingleNegationLevel ==
    (IsCompileCall /\ Len(filters) = 1 /\ isNegatedOperator(filters[1].operator))
        => SingleNegation(result.query)

----------------------------------------------------------------------------
(* Left-associative fold *)

C3_LogicJoinsNextFilter ==
    /\ (op.name = "buildEsQueryFromFilters" /\ Len(filters) >= 2 /\ NoneDisabled(filters))
          => result = QueryWrapper(DocOfTree(LeftFold(
                          [i \in 1..Len(filters) |-> buildSingleFilterQuery(filters[i])],
                          ConsAfter(filters))))
    /\ (op.name = "buildPreviewString" /\ Len(filters) >= 2 /\ NoneDisabled(filters))
          => result = TextOfTree(LeftFold(
                          [i \in 1..Len(filters) |-> formatFilterText(filters[i])],
                          ConsAfter(filters)), NONE)

----------------------------------------------------------------------------
(* Disabled clauses *)

\* C4: the query document and the preview of a clause sequence are those of
\* the sequence with its disabled clauses deleted, and no disabled clause's
\* field appears in the document.
C4_DisabledClausesDeleted ==
    /\ op.name = "buildEsQueryFromFilters"
          => /\ result = buildEsQueryFromFilters(DeleteDisabled(filters))
             /\ \A i \in 1..Len(filters) :
                   filters[i].disabled => filters[i].field \notin DocFields(result.query)
    /\ op.name = "buildPreviewString"
          => result = buildPreviewString(DeleteDisabled(filters))

C4_Witness ==
    /\ op.name = "buildEsQueryFromFilters"
    /\ Len(filters) = 4
    /\ filters[1].disabled /\ filters[3].disabled
    /\ ~filters[2].disabled /\ ~filters[4].disabled
    /\ filters[1].logic = "OR" /\ filters[3].logic = "OR" /\ filters[4].logic = "AND"
    /\ result.query.k = "bool"

----------------------------------------------------------------------------
(* Preview *)

----------------------------------------------------------------------------
(* Group membership manager properties *)

\* the events of the last operation with the given name
Emitted(ev) == {i \in 1..Len(emitted) : emitted[i].ev = ev}

SharesIndex(g, indices) == \E k \in 1..Len(indices) : Includes(g.filterIndices, indices[k])

HasGroupId(gs, id) == \E i \in 1..Len(gs) : gs[i].id = id

\* g is an explicit group of the current state: contiguous, inside the clause
\* sequence, and every member clause carries its id and type
IsExplicitGroup(g) ==
    /\ isContiguous(g.filterIndices)
    /\ \A k \in 1..Len(g.filterIndices) :
          /\ g.filterIndices[k] \in Indices
          /\ At(filters, g.filterIndices[k]).groupMeta.groupId = g.id
          /\ At(filters, g.filterIndices[k]).groupMeta.groupType = g.type

\* C6: after createGroupFromSelection(type) on a selection of at least two
\* indices that are contiguous once sorted, the group set holds a new group of
\* that type over the sorted selection, every group that shared an index with
\* the selection is gone, the first selected clause is tagged isGroupStart and
\* the last isGroupEnd with the new group's id, groupsChanged was emitted, and
\* the selection and the last-clicked index are cleared.
C6_CreateGroupFromSelection ==
    [][(/\ op'.name = "createGroupFromSelection"
        /\ Len(selectedIndices) >= 2
        /\ isContiguous(sortIndices(selectedIndices)))
       => LET sorted == sortIndices(selectedIndices)
          IN /\ \E i \in 1..Len(groups') :
                   /\ ~HasGroupId(groups, groups'[i].id)
                   /\ groups'[i].type = op'.type
                   /\ groups'[i].filterIndices = sorted
                   /\ At(filters', sorted[1]).groupMeta.groupId = groups'[i].id
                   /\ At(filters', sorted[Len(sorted)]).groupMeta.groupId = groups'[i].id
             /\ \A j \in 1..Len(groups) :
                   SharesIndex(groups[j], sorted) => ~HasGroupId(groups', groups[j].id)
             /\ At(filters', sorted[1]).groupMeta.isGroupStart
             /\ At(filters', sorted[Len(sorted)]).groupMeta.isGroupEnd
             /\ Emitted("groupsChanged")' # {}
             /\ selectedIndices' = <<>>
             /\ lastClickedIndex' = -1]_vars

\* C7: removing one member (first, middle or last) of a 3-member explicit
\* group leaves the group in the group set with exactly the two remaining
\* clauses as its members: its indices are their new, contiguous positions and
\* both clauses keep the group's id and type.
C7_ThreeMemberGroupKeepsTwo ==
    [][\A gi \in 1..Len(groups) :
          (/\ op'.name = "removeFilter"
           /\ Len(groups[gi].filterIndices) = 3
           /\ IsExplicitGroup(groups[gi])
           /\ Includes(groups[gi].filterIndices, op'.index))
          => LET g == groups[gi]
                 first == g.filterIndices[1]
                 remaining == adjustIndices(g.filterIndices, op'.index)
             IN /\ remaining = <<first, first + 1>>
                /\ \E j \in 1..Len(groups') :
                      /\ groups'[j].id = g.id
                      /\ groups'[j].type = g.type
                      /\ groups'[j].filterIndices = remaining
                /\ \A k \in 1..2 :
                      /\ At(filters', remaining[k]).groupMeta.groupId = g.id
                      /\ At(filters', remaining[k]).groupMeta.groupType = g.type]_vars

\* C8: removing either member of a 2-member explicit group leaves the group
\* absent from the group set and the one remaining clause without group
\* metadata.
C8_TwoMemberGroupDissolves ==
    [][\A gi \in 1..Len(groups) :
          (/\ op'.name = "removeFilter"
           /\ Len(groups[gi].filterIndices) = 2
           /\ IsExplicitGroup(groups[gi])
           /\ Includes(groups[gi].filterIndices, op'.index))
          => /\ ~HasGroupId(groups', groups[gi].id)
             /\ At(filters', groups[gi].filterIndices[1]).groupMeta = NoMeta]_vars

\* C9: createGroupFromSelection with fewer than two selected indices or with a
\* non-contiguous selection changes nothing: the group set, the clauses and
\* their group metadata, selectedIndices and lastClickedIndex stay as they
\* were, neither groupsChanged nor filtersChanged is emitted, and the call
\* returns normally.
C9_RejectedGroupChangesNothing ==
    [][(/\ op'.name = "createGroupFromSelection"
        /\ \/ Len(selectedIndices) < 2
           \/ ~isContiguous(sortIndices(selectedIndices)))
       => /\ groups' = groups
          /\ filters' = filters
          /\ selectedIndices' = selectedIndices
          /\ lastClickedIndex' = lastClickedIndex
          /\ Emitted("groupsChanged")' = {}
          /\ Emitted("filtersChanged")' = {}
          /\ op'.outcome \in {"ignored", "rejected"}]_vars

\* createGroupFromSelection has just refused the selection [0, 2] over three clauses
C9_Witness ==
    /\ op.name = "createGroupFromSelection"
    /\ op.outcome = "rejected"
    /\ Len(filters) = 3
    /\ selectedIndices = <<0, 2>>
    /\ lastClickedIndex = 2

\* C10: every group of the group set has at least two indices, its indices are
\* contiguous, and no index belongs to two groups.
C10_GroupsWellFormed ==
    /\ \A i \in 1..Len(groups) :
          /\ Len(groups[i].filterIndices) >= 2
          /\ isContiguous(sortIndices(groups[i].filterIndices))
    /\ \A i, j \in 1..Len(groups) :
          i # j => ~SharesIndex(groups[i], groups[j].filterIndices)

\* C11: removeGroup(id) for a group of the group set clears the group metadata
\* of the clauses at the group's indices and emits groupsChanged with the group
\* set without that group, every other group and every other clause's metadata
\* as before; for an id that is not in the group set it changes nothing and
\* emits nothing.
C11_RemoveGroup ==
    [][op'.name = "removeGroup"
       => IF HasGroupId(groups, op'.groupId)
          THEN LET g == groups[FindGroup(groups, op'.groupId)]
               IN /\ filters' = [i \in 1..Len(filters) |->
                                    IF Includes(g.filterIndices, i - 1)
                                    THEN [filters[i] EXCEPT !.groupMeta = NoMeta]
                                    ELSE filters[i]]
                  /\ \E e \in Emitted("groupsChanged")' :
                        emitted'[e].groups =
                            SelectSeq(groups, LAMBDA x : x.id # op'.groupId)
          ELSE /\ UNCHANGED <<filters, groups, selectedIndices, lastClickedIndex,
                              separators, queryDSL, nextGroupId>>
               /\ emitted' = <<>>]_vars

\* removeGroup(101) has removed the first of two groups over four clauses
C11_Witness ==
    /\ op.name = "removeGroup"
    /\ op.outcome = "removed"
    /\ op.groupId = 101
    /\ Len(filters) = 4
    /\ \E e \in Emitted("groupsChanged") :
          emitted[e].groups = <<Group(102, "AND", <<2, 3>>)>>
    /\ filters[1].groupMeta = NoMeta
    /\ filters[2].groupMeta = NoMeta
    /\ filters[3].groupMeta.groupId = 102
    /\ filters[4].groupMeta.groupId = 102

----------------------------------------------------------------------------
(* Selection *)

SetOf(seq) == {seq[i] : i \in 1..Len(seq)}

\* C12: selectFilter(index, modifier): with no modifier the selection becomes
\* exactly the one index; with ctrl/meta alone the index is taken out of the
\* selection if it was in it and added if it was not, the other members
\* staying; with shift alone and a previous click the selection becomes every
\* index from the last clicked index to index, in ascending order whichever of
\* the two is larger; in every case the last clicked index becomes index.
C12_SelectFilter ==
    [][op'.name = "selectFilter"
       => /\ lastClickedIndex' = op'.index
          /\ op'.mode = "plain" => selectedIndices' = <<op'.index>>
          /\ op'.mode = "ctrl"
                => /\ SetOf(selectedIndices') =
                         IF op'.index \in SetOf(selectedIndices)
                         THEN SetOf(selectedIndices) \ {op'.index}
                         ELSE SetOf(selectedIndices) \cup {op'.index}
                   /\ Cardinality(SetOf(selectedIndices')) = Len(selectedIndices')
          /\ (op'.mode = "shift" /\ lastClickedIndex # -1)
                => /\ isContiguous(selectedIndices')
                   /\ SetOf(selectedIndices') =
                         {i \in Indices :
                             \/ lastClickedIndex <= i /\ i <= op'.index
                             \/ op'.index <= i /\ i <= lastClickedIndex}]_vars

\* a shift click on clause 0 after a click on clause 3 has selected all four
C12_Witness ==
    /\ op.name = "selectFilter"
    /\ op.mode = "shift"
    /\ op.index = 0
    /\ lastClickedIndex = 0
    /\ selectedIndices = <<0, 1, 2, 3>>

----------------------------------------------------------------------------
(* Separators *)

\* type of the group with the given id: that of the group set's entry, and
\* that recorded on the member clause when the set has no entry
GroupTypeOf(gs, meta) ==
    IF FindGroup(gs, meta.groupId) # 0 THEN gs[FindGroup(gs, meta.groupId)].type
    ELSE meta.groupType

\* C13: calculateSeparators produces n-1 separators for n clauses (none for
\* n <= 1); the separator before clause i has the type of the group, with
\* isGroupBoundary false, when clauses i-1 and i carry the same group id, and
\* otherwise the connector of clause i (AND when missing), with
\* isGroupBoundary true exactly when one of the two clauses is in a group.
\* removeGroup ends with calculateSeparators, so the separators after it are
\* those of the clauses and the group set the manager then holds.
C13_SeparatorsProjectState ==
    [][(op'.name = "removeGroup" /\ op'.outcome = "removed")
       => /\ Len(separators') = IF Len(filters') <= 1 THEN 0 ELSE Len(filters') - 1
          /\ \A i \in 1..Len(separators') :
                LET prev == filters'[i].groupMeta
                    curr == filters'[i + 1].groupMeta
                IN IF prev.groupId # 0 /\ prev.groupId = curr.groupId
                   THEN /\ separators'[i].type = GroupTypeOf(groups', curr)
                        /\ ~separators'[i].isGroupBoundary
                   ELSE /\ separators'[i].type = ConnectorOf(filters'[i + 1])
                        /\ separators'[i].isGroupBoundary
                              = (prev.groupId # 0 \/ curr.groupId # 0)]_vars

----------------------------------------------------------------------------
(* Compiled documents *)

IsDocumentCall ==
    op.name \in {"buildEsQueryFromFilters", "buildEsQueryFromGroupedFilters", "toQueryDSL"}

\* the document a compiler call returned, without the query wrapper
CompiledDoc == IF op.name = "toQueryDSL" THEN result ELSE result.query

\* the documents of the clauses, as the called compiler compiles a leaf
LeafDocs ==
    IF op.name = "toQueryDSL"
    THEN [i \in 1..Len(filters) |-> clauseToQueryDSL(filterRows(filters)[i].clause)]
    ELSE [i \in 1..Len(filters) |-> leafToEsQuery(toKibanaFilter(filters[i]))]

\* doc and every document nested in it
RECURSIVE SubDocs(_)
SubDocs(doc) ==
    IF doc.k # "bool" THEN {doc}
    ELSE {doc} \cup UNION {SubDocs(doc.must[i]) : i \in 1..Len(doc.must)}
               \cup UNION {SubDocs(doc.should[i]) : i \in 1..Len(doc.should)}
               \cup UNION {SubDocs(doc.must_not[i]) : i \in 1..Len(doc.must_not)}

\* the bool object of an AND/OR node around a single child document
IsSingletonWrapper(doc) ==
    /\ doc.k = "bool"
    /\ "must_not" \notin doc.keys
    /\ Len(doc.must) + Len(doc.should) = 1

\* C14: when an AND/OR node is compiled and one child document is left after
\* the empty/match-all children are dropped, the result is that document
\* without a bool wrapper, and match_all when none is left; for astToEsQuery,
\* groupedAstToEsQuery and FilterAstService.toQueryDSL.  Here: enabled clause
\* lists of two or more clauses, of which some compile to nothing.
C14_SingleChildUnwrapped ==
    (IsDocumentCall /\ Len(filters) >= 2)
        => /\ Len(dropEmpty(LeafDocs)) = 0 => CompiledDoc = MatchAll
           /\ Len(dropEmpty(LeafDocs)) = 1 => CompiledDoc = dropEmpty(LeafDocs)[1]
           /\ \A d \in SubDocs(CompiledDoc) : ~IsSingletonWrapper(d)

\* C15: in every document a compiler produces, at every depth, a bool object
\* with a should key has minimum_should_match 1 and a bool object without
\* should has no minimum_should_match key.
C15_MinimumShouldMatch ==
    IsDocumentCall
        => \A d \in SubDocs(CompiledDoc) :
              d.k = "bool"
                 => IF "should" \in d.keys
                    THEN "minimum_should_match" \in d.keys /\ d.minimum_should_match = 1
                    ELSE "minimum_should_match" \notin d.keys

\* A OR B, AND C, OR D compiled: a should holding a must that holds a should
C15_Witness ==
    /\ op.name = "buildEsQueryFromFilters"
    /\ HasConnectors(filters, <<NONE, "OR", "AND", "OR">>)
    /\ CompiledDoc.keys = {"should", "minimum_should_match"}
    /\ CompiledDoc.minimum_should_match = 1
    /\ CompiledDoc.should[1].keys = {"must"}
    /\ CompiledDoc.should[1].must[1].keys = {"should", "minimum_should_match"}

\* C16: buildEsQueryFromFilters and buildEsQueryFromGroupedFilters return an
\* object whose only key is query; for an empty clause list and for a list
\* whose clauses are all disabled it is exactly {query: {match_all: {}}}.
C16_QueryWrapperAndMatchAll ==
    IsCompileCall
        => /\ DOMAIN result = {"query"}
           /\ Len(DeleteDisabled(filters)) = 0 => result = [query |-> [k |-> "match_all"]]

\* three clauses, all disabled, compiled with the group overlay
C16_Witness ==
    /\ op.name = "buildEsQueryFromGroupedFilters"
    /\ Len(filters) = 3
    /\ \A i \in 1..3 : filters[i].disabled
    /\ result = QueryWrapper(MatchAll)

----------------------------------------------------------------------------
(* Refused selections *)

\* C17: createGroupFromSelection reports both failure cases, a selection of
\* fewer than two indices and a non-contiguous selection: neither returns
\* without a signal.  The function returns void and throws nothing; the one
\* signal it can give is the console warning, recorded in emitted.
C17_RefusalIsReported ==
    [][(/\ op'.name = "createGroupFromSelection"
        /\ \/ Len(selectedIndices) < 2
           \/ ~isContiguous(sortIndices(selectedIndices)))
       => Emitted("warn")' # {}]_vars

----------------------------------------------------------------------------
(* Group overlay *)

\* ast and every node below it
RECURSIVE SubASTs(_)
SubASTs(ast) ==
    IF ast.type # "bool" THEN {ast}
    ELSE {ast} \cup UNION {SubASTs(ast.bool.must[i]) : i \in 1..Len(ast.bool.must)}
               \cup UNION {SubASTs(ast.bool.should[i]) : i \in 1..Len(ast.bool.should)}
               \cup UNION {SubASTs(ast.bool.must_not[i]) : i \in 1..Len(ast.bool.must_not)}

\* the indices of the group that name enabled clauses of the list
EnabledMembers(fs, g) == SelectSeq(g.filterIndices, LAMBDA i : ~At(fs, i).disabled)

\* the subtree of a group: a Bool of the group's type over the given clauses
GroupTree(fs, g, members) ==
    BoolTree(g.type, [k \in 1..Len(members) |-> LeafTree(At(fs, members[k]).field)])

\* C18: when buildGroupedAST is given a list with disabled clauses, the subtree
\* of each explicit group holds exactly the enabled clauses that the group's
\* indices name in the original list: no clause outside the group enters it
\* and no enabled member is dropped (stated for the groups with at least two
\* enabled members, which have a Bool subtree of their own).
C18_GroupKeepsItsEnabledMembers ==
    op.name = "buildGroupedAST"
        => \A gi \in 1..Len(groups) :
              Len(EnabledMembers(filters, groups[gi])) >= 2
                 => \E t \in SubASTs(result) :
                       ShapeOf(t) = GroupTree(filters, groups[gi],
                                              EnabledMembers(filters, groups[gi]))

\* the first indices of the segments of n clauses: 0, the first index of each
\* group, and the index after the last one of each group
SegmentStarts(n, gs) ==
    {i \in 0..(n - 1) :
        \/ i = 0
        \/ \E k \in 1..Len(gs) : MathMin(gs[k].filterIndices) = i
        \/ \E k \in 1..Len(gs) : MathMax(gs[k].filterIndices) = i - 1}

\* last index of the segment that starts at a
SegmentEnd(n, gs, a) ==
    IF \E i \in SegmentStarts(n, gs) : i > a
    THEN (CHOOSE i \in SegmentStarts(n, gs) :
             i > a /\ \A j \in SegmentStarts(n, gs) : j > a => i <= j) - 1
    ELSE n - 1

\* an explicit group starts at index a
IsGroupStart(gs, a) == \E k \in 1..Len(gs) : MathMin(gs[k].filterIndices) = a

\* subtree of the segment that starts at a: the group's Bool over its members,
\* or the left-to-right fold of an ungrouped run
SegmentTree(fs, gs, a) ==
    IF IsGroupStart(gs, a)
    THEN LET g == gs[CHOOSE k \in 1..Len(gs) : MathMin(gs[k].filterIndices) = a]
         IN GroupTree(fs, g, g.filterIndices)
    ELSE LET run == SubSeq(fs, a + 1, SegmentEnd(Len(fs), gs, a) + 1)
         IN LeftFold(FieldsOf(run), ConsBefore(run))

\* the fold over the segments from index a on: append to a running Bool of
\* the same operator, else wrap; a group's own Bool (atomic) is never extended
RECURSIVE FoldSegments(_, _, _, _, _)
FoldSegments(fs, gs, a, cur, atomic) ==
    IF a > Len(fs) - 1 THEN cur
    ELSE FoldSegments(fs, gs, SegmentEnd(Len(fs), gs, a) + 1,
             IF ~atomic /\ IsBoolTree(cur) /\ cur.bop = ConnectorOf(At(fs, a))
             THEN BoolTree(cur.bop, Append(cur.kids, SegmentTree(fs, gs, a)))
             ELSE BoolTree(ConnectorOf(At(fs, a)), <<cur, SegmentTree(fs, gs, a)>>),
             FALSE)

\* C19: the group overlay builder combines the ordered segment subtrees with
\* the fold of the implicit builder, the connector being that of the segment's
\* first clause: the next subtree is appended to a running Bool of the same
\* operator and a new Bool is made only otherwise.  For A, group(B,C) joined
\* by AND, D joined by AND the top node is one AND over [A, group, D].
C19_SegmentsFolded ==
    (op.name = "buildGroupedAST" /\ NoneDisabled(filters) /\ groups # <<>>)
        => /\ ShapeOf(result) =
                 FoldSegments(filters, groups, SegmentEnd(Len(filters), groups, 0) + 1,
                              SegmentTree(filters, groups, 0), IsGroupStart(groups, 0))
           /\ (/\ Len(filters) = 4
               /\ groups = <<Group(1, "OR", <<1, 2>>)>>
               /\ ConnectorOf(filters[2]) = "AND"
               /\ ConnectorOf(filters[4]) = "AND")
                 => ShapeOf(result) =
                       BoolTree("AND", <<LeafTree("A"),
                                         BoolTree("OR", <<LeafTree("B"), LeafTree("C")>>),
                                         LeafTree("D")>>)

----------------------------------------------------------------------------
(* Shape of the service's AST *)

\* no group node of the AST has a child group node of its own operator
RECURSIVE NoSameOperatorChild(_)
NoSameOperatorChild(ast) ==
    ast.type = "group"
        => \A i \in 1..Len(ast.children) :
              /\ ast.children[i].type = "group"
                    => ast.children[i].operator # ast.operator
              /\ NoSameOperatorChild(ast.children[i])

\* C20: every AST the implicit builder returns, and every AST obtained from it
\* by addClause, removeClause and updateClause calls, has no Bool node with a
\* child Bool node of the same operator.
C20_NoSameOperatorNesting == NoSameOperatorChild(result)

----------------------------------------------------------------------------
(* Subtrees of the overlay's segments *)

\* the groups that lie within a list of n clauses, as buildGroupedASTRecursive
\* keeps them
GroupsInRange(n, gs) ==
    SelectSeq(gs, LAMBDA g : MathMin(g.filterIndices) >= 0
                             /\ MathMax(g.filterIndices) <= n - 1)

\* subtree of the segment of the list fs that starts at a: for a group, the
\* single member's leaf or one Bool of the group's type over the leaves of its
\* members; for an ungrouped run, the left-to-right fold of the run alone
OverlaySegmentTree(fs, gs, a) ==
    IF IsGroupStart(gs, a)
    THEN LET g == gs[CHOOSE k \in 1..Len(gs) : MathMin(gs[k].filterIndices) = a]
         IN IF Len(g.filterIndices) = 1 THEN LeafTree(At(fs, g.filterIndices[1]).field)
            ELSE GroupTree(fs, g, g.filterIndices)
    ELSE LET run == SubSeq(fs, a + 1, SegmentEnd(Len(fs), gs, a) + 1)
         IN LeftFold(FieldsOf(run), ConsBefore(run))

----------------------------------------------------------------------------
(* Freshness of the separators *)

\* the operation that has just returned changed group metadata or the group set
ChangedGrouping ==
    /\ op.name \in {"createGroupFromSelection", "createImplicitGroup", "removeGroup",
                     "removeFilter"}
    /\ op.outcome \in {"created", "removed"}

\* C22: when createGroupFromSelection, createImplicitGroup, removeGroup or
\* removeFilter has changed a clause's group metadata or the group set, the
\* stored separators are the projection of the clauses and groups the manager
\* then holds: buildPreview and getSeparatorType read no separator computed
\* from an earlier state.
C22_SeparatorsFresh ==
    ChangedGrouping => separators = calculateSeparators(filters, groups)

----------------------------------------------------------------------------
(* Clauses that are not ready *)

KnownOperators ==
    {"is", "is_not", "is_one_of", "is_not_one_of", "exists", "does_not_exist", "range",
     "prefix", "wildcard", "query_string"}

\* no value has been entered
IsBlank(value) == value = Undef \/ value = Str("")

\* the clause is not ready or not understood
NotReady(f) ==
    \/ f.field = ""
    \/ f.operator \notin KnownOperators
    \/ f.operator = "range" /\ IsBlank(f.minValue) /\ IsBlank(f.maxValue)
    \/ f.operator \in {"prefix", "wildcard", "query_string"} /\ IsBlank(f.value)

\* C23: a clause that is not ready or not understood (no field, unknown
\* operator, range without bounds, prefix / wildcard / query_string without a
\* value) contributes no leaf query to the document of the utility compiler
\* or of FilterAstService.toQueryDSL, and the document is match_all when every
\* clause is of this kind.
C23_NotReadyContributesNothing ==
    IsDocumentCall
        => /\ \A i \in 1..Len(filters) :
                 NotReady(filters[i]) => filters[i].field \notin DocFields(CompiledDoc)
           /\ (\A i \in 1..Len(filters) : NotReady(filters[i])) => CompiledDoc = MatchAll

----------------------------------------------------------------------------
(* Range bounds *)

\* the bounds object with the key of each supplied side, gt and lt when the
\* clause names no operator
ExpectedBounds(f) ==
    LET isKeyword == endsWithKeyword(f.field)
        loKey == IF f.minOperator # NONE THEN f.minOperator ELSE "gt"
        hiKey == IF f.maxOperator # NONE THEN f.maxOperator ELSE "lt"
        keys == (IF IsBlank(f.minValue) THEN {} ELSE {loKey})
                \cup (IF IsBlank(f.maxValue) THEN {} ELSE {hiKey})
    IN [o \in keys |-> IF o = hiKey /\ ~IsBlank(f.maxValue)
                       THEN convertValue(f.maxValue, isKeyword)
                       ELSE convertValue(f.minValue, isKeyword)]

\* C24: the document of a single range clause is range(field, bounds) where
\* bounds has the key minOperator (gt when none is given) exactly when minValue
\* is supplied and the key maxOperator (lt when none is given) exactly when
\* maxValue is supplied, the number 0 counting as supplied; it is match_all
\* (no query) when neither is supplied.
C24_RangeBounds ==
    (/\ IsDocumentCall
     /\ Len(filters) = 1
     /\ filters[1].operator = "range"
     /\ filters[1].field # "")
        => CompiledDoc = IF IsBlank(filters[1].minValue) /\ IsBlank(filters[1].maxValue)
                         THEN MatchAll
                         ELSE Range(filters[1].field, ExpectedBounds(filters[1]))

----------------------------------------------------------------------------
(* First row of the filter builder *)

\* C25: after ngOnInit and any sequence of addRow, removeRow, duplicateRow,
\* moveRow and updateLogicOperator calls, the first row of the filter builder
\* carries no connector.
C25_FirstRowHasNoConnector ==
    op.name # "init" => filters[1].logicOperator = NONE

----------------------------------------------------------------------------
(* Group indices under removal *)

\* C26: removeFilter(i) leaves every surviving group pointing at the clauses
\* it pointed at before: in each group that is still in the group set, also one
\* the removed clause did not belong to, the index i is gone and every index
\* greater than i is one less, so every group index names a clause of the
\* shortened sequence.
C26_RemoveFilterShiftsIndices ==
    [][op'.name = "removeFilter"
          => \A k \in 1..Len(groups') :
                /\ \A m \in 1..Len(groups'[k].filterIndices) :
                      groups'[k].filterIndices[m] \in 0..(Len(filters') - 1)
                /\ \A j \in 1..Len(groups) :
                      groups[j].id = groups'[k].id
                         => groups'[k].filterIndices
                               = adjustIndices(groups[j].filterIndices, op'.index)]_vars

----------------------------------------------------------------------------
(* Clause metadata against the group set *)

\* the clause at 0-based index i is a member of a group with the given id
IsMemberOf(gs, id, i) ==
    \E k \in 1..Len(gs) : gs[k].id = id /\ Includes(gs[k].filterIndices, i)

\* number of clauses for which buildPreview opens, and closes, a parenthesis
OpenedParens(fs) == Cardinality({i \in 1..Len(fs) : fs[i].groupMeta.isGroupStart})

ClosedParens(fs) == Cardinality({i \in 1..Len(fs) : fs[i].groupMeta.isGroupEnd})

\* C27: after any sequence of createGroupFromSelection, removeGroup and
\* removeFilter, a clause carries groupMeta.groupId = g exactly when g is in
\* the group set and the clause's index is one of g's indices; in each group
\* exactly the first member has isGroupStart and exactly the last member has
\* isGroupEnd; the parentheses of buildPreview are balanced.
C27_MetadataAgreesWithGroups ==
    /\ \A i \in 1..Len(filters) :
          /\ filters[i].groupMeta.groupId # 0
                => IsMemberOf(groups, filters[i].groupMeta.groupId, i - 1)
          /\ \A k \in 1..Len(groups) :
                Includes(groups[k].filterIndices, i - 1)
                   => /\ filters[i].groupMeta.groupId = groups[k].id
                      /\ filters[i].groupMeta.isGroupStart
                            <=> (i - 1 = MathMin(groups[k].filterIndices))
                      /\ filters[i].groupMeta.isGroupEnd
                            <=> (i - 1 = MathMax(groups[k].filterIndices))
    /\ OpenedParens(filters) = ClosedParens(filters)

----------------------------------------------------------------------------
(* The two events of one operation *)

\* C28: within one createGroupFromSelection or removeGroup call, the group
\* set carried by the filtersChanged event equals the group set carried by
\* the groupsChanged event emitted just before it, and the owner, having
\* applied both in emission order, holds that new group set.
C28_EventsCarrySameGroups ==
    (/\ op.name \in {"createGroupFromSelection", "createImplicitGroup", "removeGroup"}
     /\ op.outcome \in {"created", "removed"})
        => \A i \in 2..Len(emitted) :
              (emitted[i].ev = "filtersChanged" /\ emitted[i - 1].ev = "groupsChanged")
                 => /\ emitted[i].groups = emitted[i - 1].groups
                    /\ groups = emitted[i - 1].groups

----------------------------------------------------------------------------
(* The overlay builder without groups *)

\* C29: with an empty group set buildEsQueryFromGroupedFilters returns the
\* document that buildEsQueryFromFilters returns for the same clause sequence.
C29_NoGroupsSameDocument ==
    (op.name = "buildEsQueryFromGroupedFilters" /\ groups = <<>>)
        => result = buildEsQueryFromFilters(filters)

\* A OR B AND C with a disabled fourth clause, compiled by the overlay builder
\* to a must over the should of A and B, and C
C29_Witness ==
    /\ op.name = "buildEsQueryFromGroupedFilters"
    /\ groups = <<>>
    /\ Len(filters) = 4
    /\ filters[2].logic = "OR" /\ filters[3].logic = "AND"
    /\ ~filters[1].disabled /\ ~filters[2].disabled /\ ~filters[3].disabled
    /\ filters[4].disabled
    /\ result.query.k = "bool"
    /\ result.query.keys = {"must"}
    /\ Len(result.query.must) = 2
    /\ result.query.must[1].k = "bool"
    /\ Len(result.query.must[1].should) = 2

----------------------------------------------------------------------------
(* Leaves of the group-aware AST *)

\* the fields of the leaves of an AST, left to right
RECURSIVE LeavesOf(_)
LeavesOf(ast) ==
    LET Concat(nodes) ==
            LET F[k \in 0..Len(nodes)] ==
                    IF k = 0 THEN <<>> ELSE F[k - 1] \o LeavesOf(nodes[k])
            IN F[Len(nodes)]
    IN CASE ast.type = "filter" -> <<ast.filter.meta.field>>
         [] ast.type = "bool" ->
              Concat(ast.bool.must) \o Concat(ast.bool.should)
                  \o Concat(ast.bool.must_not)
         [] OTHER -> <<>>

\* the groups are contiguous, within n clauses, and share no index
WellFormedGroups(n, gs) ==
    /\ \A k \in 1..Len(gs) :
          /\ Len(gs[k].filterIndices) >= 1
          /\ isContiguous(gs[k].filterIndices)
          /\ \A m \in 1..Len(gs[k].filterIndices) : gs[k].filterIndices[m] \in 0..(n - 1)
    /\ \A j, k \in 1..Len(gs) : j # k => ~SharesIndex(gs[j], gs[k].filterIndices)

\* C30: for a clause sequence without disabled clauses and a group set that
\* is contiguous, non-overlapping and within range, the leaves of the AST of
\* buildGroupedAST are the clauses of the sequence, each once, in their order.
C30_EveryClauseOnceInOrder ==
    (/\ op.name = "buildGroupedAST"
     /\ NoneDisabled(filters)
     /\ WellFormedGroups(Len(filters), groups))
        => LeavesOf(result) = FieldsOf(filters)

\* A, the OR group of B and C, and D: two segments follow the first
C30_Witness ==
    /\ op.name = "buildGroupedAST"
    /\ NoneDisabled(filters)
    /\ Len(filters) = 4
    /\ groups = <<Group(1, "OR", <<1, 2>>)>>
    /\ LeavesOf(result) = <<"A", "B", "C", "D">>

====
